---- MODULE Spec2Model ----
(***************************************************************************)
(* ProjectPlant ESP32 pot firmware: the schedule engine                    *)
(* (node_schedule.c over preferences.c and sensors.c) and the network      *)
(* onboarding state machine (startup_onboarding.c).                        *)
(*                                                                         *)
(* Each component has its own specification over the shared variables; a   *)
(* specification holds the variables of the other components fixed.        *)
(***************************************************************************)
EXTENDS Integers, Sequences, FiniteSets, TLC

VARIABLES
    \* ---- schedule engine (node_schedule.c, sensors.c, preferences.c) ----
    nvs_schedule,          \* namespace "schedule": key -> <<>> (not stored) or <<raw value>>
    schedule_state,        \* static node_schedule_t schedule_state
    schedule_initialized,  \* static bool schedule_initialized (schedule_lock is created with it)
    last_applied_minute,   \* static int last_applied_minute
    actuator_state,        \* sensors.c: light_state, pump_state, mister_state, fan_state
    sensor_mode,           \* device_identity.c: sensor_mode
    time_valid,            \* what time_sync_is_time_valid() answers
    last_call,             \* history: the operation that ran last and what it returned
    \* ---- apply_schedule_state applied twice ----
    ap_act, ap_schedule, ap_minute, ap_step, ap_wrote,
    \* ---- pure evaluation of timer_is_active ----
    tw_timer, tw_minute, tw_active,
    \* ---- onboarding (startup_onboarding.c, preferences.c) ----
    onboard_nvs,           \* namespace "onboard": key -> <<>> (not stored) or <<value>>
    nvs_fault,             \* this boot's flash behaviour: "none", "read" or "write" calls fail
    platform_fault,        \* which platform call of this boot fails, if any
    wifi_provisioned,      \* what wifi_prov_mgr_is_provisioned reports
    fallback,              \* compiled-in credentials: "none", "ssid_only" (NULL password), "both"
    onb_pc,                \* where startup_onboarding_run is
    wifi_event_bits,       \* bits set in wifi_event_group
    retry_count,           \* static int retry_count
    hub_state,             \* mqtt_uri_state, hub_url_state
    out_state,             \* *out_state
    onb_rc,                \* the return value of startup_onboarding_run, "none" until it returns
    onb_trace,             \* history of the run: path, flag at boot, attempt results
    \* ---- node_schedule_parse_hhmm called on one string ----
    hh_value,              \* const char *value: NullPtr or CStr(character codes)
    hh_out,                \* *out_minutes
    hh_result,             \* <<>> before the call, then <<the bool returned>>
    \* ---- mqtt_parse_command called on one payload ----
    pp_payload,            \* the payload: NullPtr, EmptyPayload, InvalidJson or a JSON object
    pp_cmd,                \* <<>> before the call, then <<the returned mqtt_command_t>>
    \* ---- command path (plant_mqtt.c mqtt_event_handler, app_main.c, device_identity.c) ----
    command_queue,         \* the items of command_queue, oldest first: [n, cmd]
    cmd_task,              \* handle_command_task: <<>> in xQueueReceive, <<item>> in vTaskDelay
    cmd_arrived,           \* number of MQTT_EVENT_DATA events so far; event n carries message n
    cmd_fate,              \* history: per message "ignored", "unknown", "queued" or "dropped"
    cmd_messages,          \* history: the messages that arrived, <<topic is the command topic, payload>>
    cmd_handled,           \* history: the messages handle_command_task received, in order
    cmd_status,            \* what the task's last step published
    cutoff_read,           \* what the task's last step read from WATER_CUTOFF_GPIO: <<>> (not read) or <<low>>
    collected,             \* history: <<>> or <<sensor_task's last cycle: mode, bus, float, reading>>
    device_name,           \* static char device_name[] of device_identity.c
    nvs_device,            \* namespace "device": display_name and sensor_mode, <<>> if not stored
    \* ---- the load of node_schedule_init applied to one store ----
    ld_nvs,                \* namespace "schedule" at boot
    ld_fail,               \* which prefs_get call of the load fails with an I/O error; 0: none
    ld_schedule,           \* <<>> before the load, then <<schedule_state as init leaves it>>
    \* ---- the setters of device_identity.c called directly ----
    id_call,               \* history: <<>> or <<the last call: op, name, mode, fault, rc>>
    \* ---- measurement path (app_main.c sensor_task, mqtt_task) ----
    measurement_queue,     \* the items of measurement_queue
    sensor_pc,             \* sensor_task: "collect", "send" or "overwrite"
    sensor_reading,        \* sensor_task's local reading, as the number of the sample it holds
    sample_count,          \* number of sensors_collect calls of sensor_task so far
    published,             \* history: the readings mqtt_task received, in order
    \* ---- app_main after startup_onboarding_run (app_main.c) ----
    time_sync_state,       \* "none", or how app_main's time sync went: "skipped", "init_failed",
                           \* "timed_out" or "synced"
    tasks_started,         \* what app_main has started: the MQTT client and the five tasks
    \* ---- one typed get of preferences.c on one key ----
    pg_nvs,                \* namespace "onboard" with the key under test, "complete"
    pg_call,               \* <<>> before the call, then <<type, default, fault, err, value>>
    \* ---- node_schedule.c with the dispatch task and node_schedule_task interleaved ----
    schedule_lock,         \* static SemaphoreHandle_t schedule_lock: "free" or the task holding it
    disp,                  \* the dispatch task inside node_schedule_set / node_schedule_get
    rtask,                 \* node_schedule_task inside one iteration of its loop
    rc_clock,              \* the wall clock, as an index into RaceClock
    rc_hist,               \* history: Set generations, the last return, the last iteration
    \* ---- the telemetry ring buffer (src/esp32/fw/main/storage.c) ----
    s_header,              \* static storage_header_t s_header: capacity, head, tail, count
    s_ready,               \* static bool s_ready
    s_file,                \* static FILE *s_file is not NULL
    file_header,           \* the header in telemetry.bin: <<>> (none written) or <<header>>
    file_entries,          \* the entry slots of telemetry.bin, as sample numbers; 0: never written
    rs_call                \* history: the last call: op, rc, sample, s_header before it

SchedVars == <<nvs_schedule, schedule_state, schedule_initialized, last_applied_minute,
               actuator_state, sensor_mode, time_valid, last_call>>
ApplyVars == <<ap_act, ap_schedule, ap_minute, ap_step, ap_wrote>>
TimerVars == <<tw_timer, tw_minute, tw_active>>
OnbVars == <<onboard_nvs, nvs_fault, platform_fault, wifi_provisioned, fallback, onb_pc,
             wifi_event_bits, retry_count, hub_state, out_state, onb_rc, onb_trace>>
HhmmVars == <<hh_value, hh_out, hh_result>>
ParseVars == <<pp_payload, pp_cmd>>
CmdVars == <<command_queue, cmd_task, cmd_arrived, cmd_fate, cmd_messages, cmd_handled,
             cmd_status, cutoff_read, collected, device_name, nvs_device>>
LoadVars == <<ld_nvs, ld_fail, ld_schedule>>
IdVars == <<id_call>>
MeasVars == <<measurement_queue, sensor_pc, sensor_reading, sample_count, published>>
AppVars == <<time_sync_state, tasks_started>>
PrefVars == <<pg_nvs, pg_call>>
LockVars == <<schedule_lock, disp, rtask, rc_clock, rc_hist>>
RingVars == <<s_header, s_ready, s_file, file_header, file_entries, rs_call>>
ExtVars == <<PrefVars, LockVars, RingVars>>
AuxVars == <<LoadVars, IdVars, MeasVars, AppVars, ExtVars>>
MqttVars == <<HhmmVars, ParseVars, CmdVars, AuxVars>>
vars == <<SchedVars, ApplyVars, TimerVars, OnbVars, MqttVars>>

(***************************************************************************)
(* node_schedule.h / node_schedule.c: types, constants, validation         *)
(***************************************************************************)
TZ_OFFSET_MIN == -720
TZ_OFFSET_MAX == 840
MINUTES_PER_DAY == 1440
UINT16_MAX == 65535

Timer(en, st, et) == [enabled |-> en, start_minute |-> st, end_minute |-> et]

MkSchedule(l, p, m, f, tz) ==
    [light |-> l, pump |-> p, mister |-> m, fan |-> f, timezone_offset_minutes |-> tz]

TimerNames == {"light", "pump", "mister", "fan"}

DEFAULT_LIGHT == Timer(FALSE, 6 * 60, 20 * 60)
DEFAULT_PUMP == Timer(FALSE, 7 * 60, (7 * 60) + 15)
DEFAULT_MISTER == Timer(FALSE, 8 * 60, (8 * 60) + 15)
DEFAULT_FAN == Timer(FALSE, 9 * 60, 18 * 60)

node_schedule_defaults ==
    MkSchedule(DEFAULT_LIGHT, DEFAULT_PUMP, DEFAULT_MISTER, DEFAULT_FAN, 0)

\* The zero-initialised static schedule_state before node_schedule_init runs.
ZeroSchedule ==
    MkSchedule(Timer(FALSE, 0, 0), Timer(FALSE, 0, 0), Timer(FALSE, 0, 0), Timer(FALSE, 0, 0), 0)

is_valid_timer_offbyone(timer) ==
    timer.start_minute <= MINUTES_PER_DAY /\ timer.end_minute <= MINUTES_PER_DAY

is_valid_timer(timer) ==
    timer.start_minute < MINUTES_PER_DAY /\ timer.end_minute < MINUTES_PER_DAY

is_valid_schedule(schedule) ==
    /\ is_valid_timer(schedule.light)
    /\ is_valid_timer(schedule.pump)
    /\ is_valid_timer(schedule.mister)
    /\ is_valid_timer(schedule.fan)
    /\ schedule.timezone_offset_minutes >= TZ_OFFSET_MIN
    /\ schedule.timezone_offset_minutes <= TZ_OFFSET_MAX

timer_is_active_closed_end(timer, minute_of_day) ==
    IF ~timer.enabled THEN FALSE
    ELSE IF timer.start_minute = timer.end_minute THEN TRUE
    ELSE IF timer.start_minute < timer.end_minute
         THEN minute_of_day >= timer.start_minute /\ minute_of_day <= timer.end_minute
         ELSE minute_of_day >= timer.start_minute \/ minute_of_day <= timer.end_minute

timer_is_active(timer, minute_of_day) ==
    IF ~timer.enabled THEN FALSE
    ELSE IF timer.start_minute = timer.end_minute THEN TRUE
    ELSE IF timer.start_minute < timer.end_minute
         THEN minute_of_day >= timer.start_minute /\ minute_of_day < timer.end_minute
         ELSE minute_of_day >= timer.start_minute \/ minute_of_day < timer.end_minute

(***************************************************************************)
(* The 13 keys of namespace "schedule", in the order save_schedule_locked  *)
(* writes them and load_schedule_locked reads them.                        *)
(***************************************************************************)
SCHEDULE_KEYS ==
    <<"l_en", "l_st", "l_et", "p_en", "p_st", "p_et",
      "m_en", "m_st", "m_et", "f_en", "f_st", "f_et", "tz_ofs">>

KeySet == {SCHEDULE_KEYS[i] : i \in 1..Len(SCHEDULE_KEYS)}

KeyIndex ==
    [l_en |-> 1, l_st |-> 2, l_et |-> 3, p_en |-> 4, p_st |-> 5, p_et |-> 6,
     m_en |-> 7, m_st |-> 8, m_et |-> 9, f_en |-> 10, f_st |-> 11, f_et |-> 12, tz_ofs |-> 13]

KeyPos(k) == KeyIndex[k]

\* key -> <<timer, field>> as the put/get calls pair them
KeyField ==
    [l_en |-> <<"light", "enabled">>,  l_st |-> <<"light", "start_minute">>,
     l_et |-> <<"light", "end_minute">>,
     p_en |-> <<"pump", "enabled">>,   p_st |-> <<"pump", "start_minute">>,
     p_et |-> <<"pump", "end_minute">>,
     m_en |-> <<"mister", "enabled">>, m_st |-> <<"mister", "start_minute">>,
     m_et |-> <<"mister", "end_minute">>,
     f_en |-> <<"fan", "enabled">>,    f_st |-> <<"fan", "start_minute">>,
     f_et |-> <<"fan", "end_minute">>,
     tz_ofs |-> <<"", "timezone_offset_minutes">>]

\* prefs_put_bool stores value ? 1U : 0U; prefs_put_u32 / prefs_put_i32 store the number.
PutValue(schedule, k) ==
    LET tf == KeyField[k] IN
    IF tf[2] = "timezone_offset_minutes" THEN schedule.timezone_offset_minutes
    ELSE IF tf[2] = "enabled" THEN (IF schedule[tf[1]].enabled THEN 1 ELSE 0)
    ELSE schedule[tf[1]][tf[2]]

\* A variant that writes every end time under the start key's value.
save_schedule_locked_swapped(nvs, schedule, failAt) ==
    [err |-> IF failAt = 0 THEN "ESP_OK" ELSE "ESP_FAIL",
     nvs |-> [k \in KeySet |->
                IF failAt = 0 \/ KeyPos(k) < failAt
                THEN (IF KeyField[k][2] = "end_minute"
                      THEN <<schedule[KeyField[k][1]].start_minute>>
                      ELSE <<PutValue(schedule, k)>>)
                ELSE nvs[k]]]

\* failAt = 0: all 13 puts succeed; failAt = i: the i-th put fails and the
\* function returns its error with the first i-1 keys already written.
save_schedule_locked(nvs, schedule, failAt) ==
    [err |-> IF failAt = 0 THEN "ESP_OK" ELSE "ESP_FAIL",
     nvs |-> [k \in KeySet |->
                IF failAt = 0 \/ KeyPos(k) < failAt
                THEN <<PutValue(schedule, k)>>
                ELSE nvs[k]]]

\* A variant that takes the stored raw value without the range checks.
LoadField_unchecked(nvs, k, default) ==
    IF nvs[k] = <<>> THEN default
    ELSE IF KeyField[k][2] = "enabled" THEN nvs[k][1] # 0 ELSE nvs[k][1]

\* One field as load_schedule_locked reads it: a key that is not stored (or a
\* namespace that does not exist) leaves the default; prefs_get_bool gives
\* raw != 0; a minute is taken only if < 1440, the offset only if in range.
LoadField(nvs, k, default) ==
    IF nvs[k] = <<>> THEN default
    ELSE LET raw == nvs[k][1] IN
         IF KeyField[k][2] = "enabled" THEN raw # 0
         ELSE IF KeyField[k][2] = "timezone_offset_minutes"
              THEN (IF raw >= TZ_OFFSET_MIN /\ raw <= TZ_OFFSET_MAX THEN raw ELSE default)
              ELSE (IF raw < MINUTES_PER_DAY THEN raw ELSE default)

\* failAt = 0: every read returns ESP_OK or not-found; failAt = i: the i-th read
\* fails with an I/O error and the function returns it, the fields after it
\* still holding their defaults.
load_schedule_locked(nvs, failAt) ==
    LET d == node_schedule_defaults
        F(k, default) == IF failAt = 0 \/ KeyPos(k) < failAt
                         THEN LoadField(nvs, k, default) ELSE default
        T(en, st, et, dt) == Timer(F(en, dt.enabled), F(st, dt.start_minute), F(et, dt.end_minute))
    IN [err |-> IF failAt = 0 THEN "ESP_OK" ELSE "ESP_FAIL",
        schedule |-> MkSchedule(T("l_en", "l_st", "l_et", d.light),
                                T("p_en", "p_st", "p_et", d.pump),
                                T("m_en", "m_st", "m_et", d.mister),
                                T("f_en", "f_st", "f_et", d.fan),
                                F("tz_ofs", d.timezone_offset_minutes))]

(***************************************************************************)
(* Wall clock: time_sync.c and current_minute_of_day                       *)
(***************************************************************************)
MIN_VALID_EPOCH == 1609459200

\* C's % truncates toward zero.
CRem(a, b) == IF a >= 0 THEN a % b ELSE -((-a) % b)

\* now_sec is gettimeofday's tv_sec, read only when the time is valid.
current_minute_of_day(timezone_offset_minutes, now_sec) ==
    LET local_minutes == (now_sec \div 60) + timezone_offset_minutes
        minute == CRem(local_minutes, MINUTES_PER_DAY)
    IN IF minute < 0 THEN minute + MINUTES_PER_DAY ELSE minute

(***************************************************************************)
(* sensors.c: actuator setters                                             *)
(***************************************************************************)
device_identity_sensors_enabled == sensor_mode = "SENSOR_MODE_FULL"

\* Variant that never consults the cutoff float.
sensors_set_pump_state_unchecked(on, cutoff_low) == on

\* The pump state sensors_set_pump_state(on) leaves: a turn-on is blocked when
\* the sensors are enabled and the cutoff float reads low.
sensors_set_pump_state(on, cutoff_low) ==
    IF on /\ device_identity_sensors_enabled /\ cutoff_low THEN FALSE ELSE on

\* Variant of sensors_collect that reads the floats and leaves the pump alone.
sensors_collect_no_cutoff(act, i2c_ok, cutoff_low) ==
    IF ~device_identity_sensors_enabled \/ ~i2c_ok
    THEN [act |-> act, reading |-> [water_cutoff |-> FALSE, pump_is_on |-> act["pump"]]]
    ELSE [act |-> act, reading |-> [water_cutoff |-> cutoff_low, pump_is_on |-> act["pump"]]]

\* sensors_collect(out): the actuator states it leaves and the two fields of
\* *out that concern the pump.  With the sensors disabled, or with the I2C bus
\* unavailable, it returns before the floats are read; otherwise it reads the
\* cutoff float and, if the pump is on and the float is low, switches the pump off.
sensors_collect(act, i2c_ok, cutoff_low) ==
    IF ~device_identity_sensors_enabled \/ ~i2c_ok
    THEN [act |-> act, reading |-> [water_cutoff |-> FALSE, pump_is_on |-> act["pump"]]]
    ELSE LET left == IF act["pump"] /\ cutoff_low
                     THEN [act EXCEPT !["pump"] = sensors_set_pump_state(FALSE, cutoff_low)]
                     ELSE act
         IN [act |-> left,
             reading |-> [water_cutoff |-> cutoff_low, pump_is_on |-> left["pump"]]]

\* One cycle as the history keeps it: the sensor mode, whether the I2C bus was
\* available, what the cutoff float read at the time, and the reading.
Collected(i2c_ok, cutoff_low, reading) ==
    [mode |-> sensor_mode, i2c_ok |-> i2c_ok, cutoff_low |-> cutoff_low, reading |-> reading]

\* A variant without the state comparison: every actuator is written each time.
apply_schedule_state_unconditional(act, schedule, minute_of_day, cutoff_low) ==
    LET desired == [t \in TimerNames |-> timer_is_active(schedule[t], minute_of_day)]
    IN [act |-> [t \in TimerNames |->
                   IF t = "pump" THEN sensors_set_pump_state(desired[t], cutoff_low)
                   ELSE desired[t]],
        wrote |-> TimerNames]

\* A variant that only switches on: an actuator that is on outside its window
\* is left to the next command.
apply_schedule_state_switch_on_only(act, schedule, minute_of_day, cutoff_low) ==
    LET desired == [t \in TimerNames |-> timer_is_active(schedule[t], minute_of_day)]
        wrote == {t \in TimerNames : desired[t] /\ ~act[t]}
    IN [act |-> [t \in TimerNames |->
                   IF t \notin wrote THEN act[t]
                   ELSE IF t = "pump" THEN sensors_set_pump_state(desired[t], cutoff_low)
                   ELSE desired[t]],
        wrote |-> wrote]

\* apply_schedule_state: each actuator whose state differs from the desired one
\* is written through its setter. Gives the states left and the actuators written.
apply_schedule_state(act, schedule, minute_of_day, cutoff_low) ==
    LET desired == [t \in TimerNames |-> timer_is_active(schedule[t], minute_of_day)]
        wrote == {t \in TimerNames : act[t] # desired[t]}
    IN [act |-> [t \in TimerNames |->
                   IF t \notin wrote THEN act[t]
                   ELSE IF t = "pump" THEN sensors_set_pump_state(desired[t], cutoff_low)
                   ELSE desired[t]],
        wrote |-> wrote]

(***************************************************************************)
(* Inputs of the schedule engine                                           *)
(***************************************************************************)
TimerA == Timer(TRUE, 60, 120)
TimerB == Timer(TRUE, 1380, 60)
TimerC == Timer(TRUE, 300, 300)
TimerD == Timer(FALSE, 0, 1439)

TimerQuads == {<<TimerA, TimerB, TimerC, TimerD>>,
               <<TimerB, TimerD, TimerA, TimerC>>}

TzInputs == {TZ_OFFSET_MIN, TZ_OFFSET_MAX}

ValidSchedules ==
    {MkSchedule(q[1], q[2], q[3], q[4], tz) : q \in TimerQuads, tz \in TzInputs}

BaseSchedule == MkSchedule(TimerA, TimerB, TimerC, TimerD, 0)

\* One field of BaseSchedule pushed out of range: each start or end minute at
\* 1440, one at the largest uint16_t, the offset one past either end.
InvalidSchedules ==
    {[BaseSchedule EXCEPT ![t].start_minute = MINUTES_PER_DAY] : t \in TimerNames}
    \cup {[BaseSchedule EXCEPT ![t].end_minute = MINUTES_PER_DAY] : t \in TimerNames}
    \cup {[BaseSchedule EXCEPT !.pump.start_minute = UINT16_MAX],
          [BaseSchedule EXCEPT !.timezone_offset_minutes = TZ_OFFSET_MIN - 1],
          [BaseSchedule EXCEPT !.timezone_offset_minutes = TZ_OFFSET_MAX + 1]}

ScheduleInputs == ValidSchedules \cup InvalidSchedules

\* Which put (save) or get (load) fails with an I/O error; 0: none.
WriteFailPoints == {0, 8}
ReadFailPoints == {0, 5}

\* tv_sec at 00:00 and 11:40 UTC of a day after MIN_VALID_EPOCH.
NowSecs == {MIN_VALID_EPOCH + 60 * m : m \in {0, 700}}

EmptyStore == [k \in KeySet |-> <<>>]

SavedBase == save_schedule_locked(EmptyStore, BaseSchedule, 0).nvs

\* What the preference store can hold at boot: nothing; a schedule saved
\* earlier; a saved schedule with a key missing, with a minute >= 1440 (one
\* beyond uint16_t) or with an offset out of range; a raw value no Set would
\* write under every key.
StoreInits ==
    {EmptyStore, SavedBase,
     [SavedBase EXCEPT !["p_st"] = <<>>],
     [SavedBase EXCEPT !["l_et"] = <<MINUTES_PER_DAY>>],
     [SavedBase EXCEPT !["tz_ofs"] = <<TZ_OFFSET_MAX + 1>>],
     [k \in KeySet |-> IF KeyField[k][2] = "enabled" THEN <<2>>
                       ELSE IF KeyField[k][2] = "timezone_offset_minutes" THEN <<TZ_OFFSET_MIN - 1>>
                       ELSE <<70000>>]}

(***************************************************************************)
(* Operations of the schedule engine. Each handler runs to completion      *)
(* before the next starts, so every take of schedule_lock succeeds.        *)
(***************************************************************************)
Call(op, rc) == [op |-> op, rc |-> rc]

\* Variant that applies the schedule whatever the clock says.
apply_now_if_possible_any_clock(act, snapshot, base_minute, now_sec, cutoff_low) ==
    LET minute_of_day == current_minute_of_day(snapshot.timezone_offset_minutes, now_sec)
    IN [act |-> apply_schedule_state(act, snapshot, minute_of_day, cutoff_low).act,
        minute |-> minute_of_day]

\* apply_now_if_possible, called with schedule_initialized set: snapshot the
\* schedule, return if the clock is not valid, else apply and record the
\* minute. base_minute is last_applied_minute as the caller left it.
apply_now_if_possible(act, snapshot, base_minute, now_sec, cutoff_low) ==
    IF ~time_valid
    THEN [act |-> act, minute |-> base_minute]
    ELSE LET minute_of_day == current_minute_of_day(snapshot.timezone_offset_minutes, now_sec)
         IN [act |-> apply_schedule_state(act, snapshot, minute_of_day, cutoff_low).act,
             minute |-> minute_of_day]

\* Variant that keeps what was loaded before the failing read.
init_schedule_state_keep_loaded(nvs, failAt) == load_schedule_locked(nvs, failAt).schedule

\* schedule_state as node_schedule_init leaves it: what load_schedule_locked
\* loaded, or the defaults when the load returned an error.
init_schedule_state(nvs, failAt) ==
    LET loaded == load_schedule_locked(nvs, failAt)
    IN  IF loaded.err = "ESP_OK" THEN loaded.schedule ELSE node_schedule_defaults

\* What node_schedule_init leaves, from the current state.
node_schedule_init_outcome(mutex_ok, failAt, now_sec, cutoff_low) ==
    IF ~mutex_ok
    THEN [rc |-> "ESP_ERR_NO_MEM", schedule_state |-> schedule_state,
          schedule_initialized |-> FALSE,
          last_applied_minute |-> last_applied_minute, actuator_state |-> actuator_state]
    ELSE LET sched == init_schedule_state(nvs_schedule, failAt)
             a == apply_now_if_possible(actuator_state, sched, -1, now_sec, cutoff_low)
         IN [rc |-> "ESP_OK", schedule_state |-> sched, schedule_initialized |-> TRUE,
             last_applied_minute |-> a.minute, actuator_state |-> a.act]

\* esp_err_t node_schedule_init(void), run once per boot by app_main.
node_schedule_init ==
    /\ ~schedule_initialized
    /\ \E mutex_ok \in BOOLEAN, failAt \in ReadFailPoints, now_sec \in NowSecs, cutoff_low \in BOOLEAN :
         LET r == node_schedule_init_outcome(mutex_ok, failAt, now_sec, cutoff_low)
         IN /\ schedule_state' = r.schedule_state
            /\ schedule_initialized' = r.schedule_initialized
            /\ last_applied_minute' = r.last_applied_minute
            /\ actuator_state' = r.actuator_state
            /\ last_call' = Call("init", r.rc)
    /\ UNCHANGED <<nvs_schedule, sensor_mode, time_valid>>

\* What node_schedule_set(schedule) returns and leaves, from the current state.
node_schedule_set_outcome(schedule, failAt, now_sec, cutoff_low) ==
    LET same == [nvs_schedule |-> nvs_schedule, schedule_state |-> schedule_state,
                 last_applied_minute |-> last_applied_minute, actuator_state |-> actuator_state]
    IN IF ~schedule_initialized THEN [rc |-> "ESP_ERR_INVALID_STATE"] @@ same
       ELSE IF ~is_valid_schedule(schedule) THEN [rc |-> "ESP_ERR_INVALID_ARG"] @@ same
       ELSE LET saved == save_schedule_locked(nvs_schedule, schedule, failAt)
                a == apply_now_if_possible(actuator_state, schedule, last_applied_minute,
                                           now_sec, cutoff_low)
            IN IF saved.err # "ESP_OK"
               THEN [rc |-> saved.err, nvs_schedule |-> saved.nvs, schedule_state |-> schedule,
                     last_applied_minute |-> last_applied_minute, actuator_state |-> actuator_state]
               ELSE [rc |-> "ESP_OK", nvs_schedule |-> saved.nvs, schedule_state |-> schedule,
                     last_applied_minute |-> a.minute, actuator_state |-> a.act]

\* esp_err_t node_schedule_set(const node_schedule_t *schedule)
node_schedule_set ==
    /\ \E schedule \in ScheduleInputs, failAt \in WriteFailPoints, now_sec \in NowSecs, cutoff_low \in BOOLEAN :
         LET r == node_schedule_set_outcome(schedule, failAt, now_sec, cutoff_low)
         IN /\ nvs_schedule' = r.nvs_schedule
            /\ schedule_state' = r.schedule_state
            /\ last_applied_minute' = r.last_applied_minute
            /\ actuator_state' = r.actuator_state
            /\ last_call' = Call("set", r.rc)
    /\ UNCHANGED <<schedule_initialized, sensor_mode, time_valid>>

\* void node_schedule_get(node_schedule_t *out_schedule): what it writes to *out_schedule.
\* Handlers are atomic here, so schedule_lock is free whenever one starts and
\* the lock-timeout branches of get, set and the task are not taken.
node_schedule_get(initialized, state) ==
    IF ~initialized THEN node_schedule_defaults ELSE state

\* What one iteration of the task did: the minute of day it computed (-1 when
\* it did not get that far) and the actuators it wrote through their setters.
Tick(minute_of_day, wrote) ==
    [op |-> "task", rc |-> "ESP_OK", minute |-> minute_of_day, wrote |-> wrote]

\* Variant that re-evaluates on every tick.
node_schedule_task_every_tick ==
    /\ \E now_sec \in NowSecs, cutoff_low \in BOOLEAN :
         IF ~schedule_initialized \/ ~time_valid
         THEN /\ UNCHANGED <<last_applied_minute, actuator_state>>
              /\ last_call' = Tick(-1, {})
         ELSE LET snapshot == schedule_state
                  minute_of_day == current_minute_of_day(snapshot.timezone_offset_minutes, now_sec)
                  applied == apply_schedule_state(actuator_state, snapshot, minute_of_day, cutoff_low)
              IN /\ actuator_state' = applied.act
                 /\ last_applied_minute' = minute_of_day
                 /\ last_call' = Tick(minute_of_day, applied.wrote)
    /\ UNCHANGED <<nvs_schedule, schedule_state, schedule_initialized, sensor_mode, time_valid>>

\* One iteration of node_schedule_task's loop (one 10 s period).
node_schedule_task ==
    /\ \E now_sec \in NowSecs, cutoff_low \in BOOLEAN :
         IF ~schedule_initialized \/ ~time_valid
         THEN /\ UNCHANGED <<last_applied_minute, actuator_state>>
              /\ last_call' = Tick(-1, {})
         ELSE LET snapshot == schedule_state
                  minute_of_day == current_minute_of_day(snapshot.timezone_offset_minutes, now_sec)
                  applied == apply_schedule_state(actuator_state, snapshot, minute_of_day, cutoff_low)
              IN IF minute_of_day # last_applied_minute
                 THEN /\ actuator_state' = applied.act
                      /\ last_applied_minute' = minute_of_day
                      /\ last_call' = Tick(minute_of_day, applied.wrote)
                 ELSE /\ UNCHANGED <<last_applied_minute, actuator_state>>
                      /\ last_call' = Tick(minute_of_day, {})
    /\ UNCHANGED <<nvs_schedule, schedule_state, schedule_initialized, sensor_mode, time_valid>>

\* SNTP brings the wall clock past MIN_VALID_EPOCH.
TimeSynced ==
    /\ ~time_valid
    /\ time_valid' = TRUE
    /\ last_call' = Call("sync", "ESP_OK")
    /\ UNCHANGED <<nvs_schedule, schedule_state, schedule_initialized,
                   last_applied_minute, actuator_state, sensor_mode>>

\* A restart: the statics are back at their initial values, sensors_init has
\* switched the four actuators off, the preference store is kept. The RTC may
\* or may not have kept a valid time.
Reboot ==
    /\ schedule_state' = ZeroSchedule
    /\ schedule_initialized' = FALSE
    /\ last_applied_minute' = -1
    /\ actuator_state' = [t \in TimerNames |-> FALSE]
    /\ time_valid' \in BOOLEAN
    /\ last_call' = Call("reboot", "ESP_OK")
    /\ UNCHANGED <<nvs_schedule, sensor_mode>>

SchedInit ==
    /\ nvs_schedule \in StoreInits
    /\ schedule_state = ZeroSchedule
    /\ schedule_initialized = FALSE
    /\ last_applied_minute = -1
    /\ actuator_state = [t \in TimerNames |-> FALSE]
    /\ sensor_mode \in {"SENSOR_MODE_FULL", "SENSOR_MODE_CONTROL_ONLY"}
    /\ time_valid \in BOOLEAN
    /\ last_call = Call("reboot", "ESP_OK")

SchedNext ==
    \/ node_schedule_init
    \/ node_schedule_set
    \/ node_schedule_task
    \/ TimeSynced
    \/ Reboot

SchedIdle ==
    /\ nvs_schedule = EmptyStore
    /\ schedule_state = ZeroSchedule
    /\ schedule_initialized = FALSE
    /\ last_applied_minute = -1
    /\ actuator_state = [t \in TimerNames |-> FALSE]
    /\ sensor_mode = "SENSOR_MODE_FULL"
    /\ time_valid = FALSE
    /\ last_call = Call("reboot", "ESP_OK")

(***************************************************************************)
(* apply_schedule_state applied twice with the same schedule and minute,   *)
(* as two re-evaluations in a row make it (Set after Set, Set after a      *)
(* task iteration). The cutoff float is read anew by each application.     *)
(***************************************************************************)
ApplyMinutes == {0, 90, 100, 300, 700, 1420}

ApplyIdle ==
    /\ ap_act = [t \in TimerNames |-> FALSE]
    /\ ap_schedule = ZeroSchedule
    /\ ap_minute = 0
    /\ ap_step = 0
    /\ ap_wrote = <<>>

ApplyInit ==
    /\ ap_act \in [TimerNames -> BOOLEAN]
    /\ ap_schedule \in ValidSchedules \cup {BaseSchedule, node_schedule_defaults}
    /\ ap_minute \in ApplyMinutes
    /\ ap_step = 0
    /\ ap_wrote = <<>>

\* The first application.
ApplyFirst ==
    /\ ap_step = 0
    /\ \E cutoff_low \in BOOLEAN :
         LET r == apply_schedule_state(ap_act, ap_schedule, ap_minute, cutoff_low)
         IN ap_act' = r.act /\ ap_wrote' = <<r.wrote>>
    /\ ap_step' = 1
    /\ UNCHANGED <<ap_schedule, ap_minute>>

\* The second application, nothing else having touched the actuators.
ApplySecond ==
    /\ ap_step = 1
    /\ \E cutoff_low \in BOOLEAN :
         LET r == apply_schedule_state(ap_act, ap_schedule, ap_minute, cutoff_low)
         IN ap_act' = r.act /\ ap_wrote' = Append(ap_wrote, r.wrote)
    /\ ap_step' = 2
    /\ UNCHANGED <<ap_schedule, ap_minute>>

(***************************************************************************)
(* timer_is_active evaluated on its own                                    *)
(***************************************************************************)
WindowEdges == {0, 60, 120, 300, 1380, 1439}
MinuteSamples == {0, 29, 30, 59, 60, 61, 90, 119, 120, 121, 150, 299, 300, 301,
                  700, 1379, 1380, 1381, 1438, 1439}

TimerIdle == tw_timer = TimerD /\ tw_minute = 0 /\ tw_active = <<>>

TimerInit ==
    /\ tw_timer \in {Timer(en, st, et) : en \in BOOLEAN, st \in WindowEdges, et \in WindowEdges}
    /\ tw_minute \in MinuteSamples
    /\ tw_active = <<>>

EvalTimer ==
    /\ tw_active = <<>>
    /\ tw_active' = <<timer_is_active(tw_timer, tw_minute)>>
    /\ UNCHANGED <<tw_timer, tw_minute>>

(***************************************************************************)
(* Onboarding: startup_onboarding.c over preferences.c                     *)
(***************************************************************************)
WIFI_MAX_RETRY == 5

OnbKeys == {"complete", "mqtt_uri", "hub_url"}

\* A namespace exists in NVS once a key has been written to it.
NamespaceExists(nvs) == \E k \in OnbKeys : nvs[k] # <<>>

is_pref_missing(err) == err \in {"ESP_ERR_NVS_NOT_FOUND", "ESP_ERR_NVS_INVALID_NAME"}

\* prefs_get_u8: nvs_open(READONLY) fails when the namespace does not exist;
\* a key that is not found in an existing namespace is turned into ESP_OK with
\* the default value.
prefs_get_u8(nvs, key, default_value, fault) ==
    IF fault = "read" THEN [err |-> "ESP_FAIL", value |-> default_value]
    ELSE IF ~NamespaceExists(nvs) THEN [err |-> "ESP_ERR_NVS_NOT_FOUND", value |-> default_value]
    ELSE IF nvs[key] = <<>> THEN [err |-> "ESP_OK", value |-> default_value]
    ELSE [err |-> "ESP_OK", value |-> nvs[key][1]]

prefs_get_bool(nvs, key, default_value, fault) ==
    LET r == prefs_get_u8(nvs, key, IF default_value THEN 1 ELSE 0, fault)
    IN [err |-> r.err, value |-> IF r.err = "ESP_OK" THEN r.value # 0 ELSE default_value]

prefs_get_str(nvs, key, default_value, fault) ==
    IF fault = "read" THEN [err |-> "ESP_FAIL", value |-> default_value]
    ELSE IF ~NamespaceExists(nvs) THEN [err |-> "ESP_ERR_NVS_NOT_FOUND", value |-> default_value]
    ELSE IF nvs[key] = <<>> THEN [err |-> "ESP_OK", value |-> default_value]
    ELSE [err |-> "ESP_OK", value |-> nvs[key][1]]

prefs_put_u8(nvs, key, value, fault) ==
    IF fault = "write" THEN [err |-> "ESP_FAIL", nvs |-> nvs]
    ELSE [err |-> "ESP_OK", nvs |-> [nvs EXCEPT ![key] = <<value>>]]

prefs_put_bool(nvs, key, value, fault) ==
    prefs_put_u8(nvs, key, IF value THEN 1 ELSE 0, fault)

prefs_put_str(nvs, key, value, fault) ==
    IF fault = "write" THEN [err |-> "ESP_FAIL", nvs |-> nvs]
    ELSE [err |-> "ESP_OK", nvs |-> [nvs EXCEPT ![key] = <<value>>]]

load_onboarding_complete(nvs, fault) ==
    LET r == prefs_get_bool(nvs, "complete", FALSE, fault)
    IN IF r.err = "ESP_OK" THEN [err |-> "ESP_OK", complete |-> r.value, missing |-> FALSE]
       ELSE IF is_pref_missing(r.err) THEN [err |-> "ESP_OK", complete |-> FALSE, missing |-> TRUE]
       ELSE [err |-> r.err, complete |-> FALSE, missing |-> FALSE]

persist_onboarding_complete(nvs, complete, fault) ==
    prefs_put_bool(nvs, "complete", complete, fault)

load_persisted_str(nvs, key, default_value, fault) ==
    LET r == prefs_get_str(nvs, key, default_value, fault)
    IN [err |-> IF r.err = "ESP_OK" \/ is_pref_missing(r.err) THEN "ESP_OK" ELSE r.err,
        value |-> r.value]

\* A variant that stops after the broker address.
persist_hub_settings_mqtt_only(nvs, mqtt_uri, hub_url, fault) ==
    IF mqtt_uri = "" THEN [err |-> "ESP_ERR_INVALID_ARG", nvs |-> nvs]
    ELSE prefs_put_str(nvs, "mqtt_uri", mqtt_uri, fault)

persist_hub_settings(nvs, mqtt_uri, hub_url, fault) ==
    IF mqtt_uri = "" THEN [err |-> "ESP_ERR_INVALID_ARG", nvs |-> nvs]
    ELSE LET r == prefs_put_str(nvs, "mqtt_uri", mqtt_uri, fault)
         IN IF r.err # "ESP_OK" THEN r
            ELSE prefs_put_str(r.nvs, "hub_url", hub_url, fault)

\* A variant whose credential-failure case leaves the counter and the bits alone.
event_handler_no_reset(event_id, retry, bits) ==
    CASE event_id = "WIFI_PROV_CRED_FAIL" -> [retry_count |-> retry, bits |-> bits]
      [] event_id = "WIFI_EVENT_STA_DISCONNECTED" ->
            IF retry < WIFI_MAX_RETRY THEN [retry_count |-> retry + 1, bits |-> bits]
            ELSE [retry_count |-> retry, bits |-> bits \cup {"WIFI_FAIL_BIT"}]
      [] event_id = "IP_EVENT_STA_GOT_IP" ->
            [retry_count |-> 0, bits |-> bits \cup {"WIFI_CONNECTED_BIT"}]
      [] OTHER -> [retry_count |-> retry, bits |-> bits]

\* event_handler: the retry counter and the event bits after one event.
event_handler(event_id, retry, bits) ==
    CASE event_id = "WIFI_PROV_CRED_FAIL" ->
            [retry_count |-> 0, bits |-> bits \ {"WIFI_FAIL_BIT"}]
      [] event_id = "WIFI_EVENT_STA_DISCONNECTED" ->
            IF retry < WIFI_MAX_RETRY THEN [retry_count |-> retry + 1, bits |-> bits]
            ELSE [retry_count |-> retry, bits |-> bits \cup {"WIFI_FAIL_BIT"}]
      [] event_id = "IP_EVENT_STA_GOT_IP" ->
            [retry_count |-> 0, bits |-> bits \cup {"WIFI_CONNECTED_BIT"}]
      [] OTHER -> [retry_count |-> retry, bits |-> bits]

\* A variant that looks at the fail bit first.
wait_for_wifi_fail_first(bits) ==
    IF "WIFI_FAIL_BIT" \in bits THEN "ESP_FAIL"
    ELSE IF "WIFI_CONNECTED_BIT" \in bits THEN "ESP_OK"
    ELSE "ESP_ERR_TIMEOUT"

\* wait_for_wifi: what the wait returns for the bits it found (both bits are
\* cleared on exit); no bit means the timeout elapsed.
wait_for_wifi(bits) ==
    IF "WIFI_CONNECTED_BIT" \in bits THEN "ESP_OK"
    ELSE IF "WIFI_FAIL_BIT" \in bits THEN "ESP_FAIL"
    ELSE "ESP_ERR_TIMEOUT"

\* A variant that takes the factory-default path when the flag IS set.
factory_default_flag_inverted(provisioned, setup_complete) ==
    ~provisioned \/ setup_complete

\* bool factory_default = !wifi_provisioned || !setup_complete
factory_default(provisioned, setup_complete) ==
    ~provisioned \/ ~setup_complete

ZeroOut ==
    [factory_default |-> FALSE, provisioning_started |-> FALSE, wifi_connected |-> FALSE,
     mqtt_uri |-> "", hub_url |-> ""]

\* The two safe_copy calls that fill the resolved broker and hub addresses.
copy_hub_state(out, hs) ==
    [out EXCEPT !.mqtt_uri = hs.mqtt_uri, !.hub_url = hs.hub_url]

\* A variant that leaves factory_default as computed.
fallback_connected_keeps_flag(out, nvs, hs, fault) ==
    LET c == persist_onboarding_complete(nvs, TRUE, fault)
        h == persist_hub_settings(c.nvs, hs.mqtt_uri, hs.hub_url, fault)
    IN [out |-> copy_hub_state([out EXCEPT !.provisioning_started = FALSE,
                                           !.wifi_connected = TRUE], hs),
        nvs |-> h.nvs]

\* The fallback credentials connected on the factory-default path: the result
\* object and the store the function leaves.
fallback_connected(out, nvs, hs, fault) ==
    LET c == persist_onboarding_complete(nvs, TRUE, fault)
        h == persist_hub_settings(c.nvs, hs.mqtt_uri, hs.hub_url, fault)
    IN [out |-> copy_hub_state([out EXCEPT !.factory_default = FALSE,
                                           !.provisioning_started = FALSE,
                                           !.wifi_connected = TRUE], hs),
        nvs |-> h.nvs]

\* Provisioning is announced and started; a platform error ends the run.
begin_provisioning(out, fault) ==
    LET out1 == [out EXCEPT !.provisioning_started = TRUE]
    IN IF fault = "provisioning"
       THEN [pc |-> "done", rc |-> "ESP_FAIL", out |-> out1]
       ELSE [pc |-> "prov_wait", rc |-> "none", out |-> out1]

\* History kept for the properties: which path the run took, what the stored
\* flag looked like at boot, and how the connect attempts ended.
TraceInit ==
    [path |-> "none", boot_flag |-> "none", stored_result |-> "none", fb_result |-> "none",
     fb_attempts |-> 0, attempt_connected |-> FALSE, prov_fail_seen |-> FALSE]

BootFlag(nvs, fault) ==
    IF fault = "read" THEN "read_error"
    ELSE IF ~NamespaceExists(nvs) THEN "no_namespace"
    ELSE IF nvs["complete"] = <<>> THEN "key_absent"
    ELSE IF nvs["complete"][1] # 0 THEN "true" ELSE "false"

\* Inputs of a boot.
NvsFaults == {"none", "read", "write"}
PlatformFaults == {"none", "init", "provisioning", "wifi"}
Fallbacks == {"none", "ssid_only", "both"}
EmptyOnboard == [k \in OnbKeys |-> <<>>]
HubStores == {<<<<>>, <<>>>>, <<<<"default_uri">>, <<"">>>>, <<<<"hub_uri">>, <<"hub_url">>>>}
OnbStores ==
    {[complete |-> c, mqtt_uri |-> h[1], hub_url |-> h[2]] :
        c \in {<<>>, <<0>>, <<1>>}, h \in HubStores}

\* startup_onboarding_run up to its first wait or its return: the loads, the
\* platform initialisation, the migration, the choice of path and the start of
\* the first connect attempt.
startup_onboarding_run_outcome ==
    LET m == load_persisted_str(onboard_nvs, "mqtt_uri", "default_uri", nvs_fault)
        h == load_persisted_str(onboard_nvs, "hub_url", "", nvs_fault)
        hs == [mqtt_uri |-> m.value, hub_url |-> h.value]
        lc == load_onboarding_complete(onboard_nvs, nvs_fault)
        setup_missing == IF lc.err # "ESP_OK" THEN TRUE ELSE lc.missing
        loaded_complete == IF lc.err # "ESP_OK" THEN FALSE ELSE lc.complete
        migrate == setup_missing /\ wifi_provisioned
        setup_complete == IF migrate THEN TRUE ELSE loaded_complete
        nvs1 == IF migrate THEN persist_onboarding_complete(onboard_nvs, TRUE, nvs_fault).nvs
                ELSE onboard_nvs
        fd == factory_default(wifi_provisioned, setup_complete)
        out0 == [ZeroOut EXCEPT !.factory_default = fd]
        tr0 == [TraceInit EXCEPT !.boot_flag = BootFlag(onboard_nvs, nvs_fault)]
        base == [hub_state |-> hs, nvs |-> nvs1, retry_count |-> 0, bits |-> {}]
    IN IF platform_fault = "init" THEN
           base @@ [nvs |-> onboard_nvs, pc |-> "done", rc |-> "ESP_FAIL", out |-> ZeroOut,
                    trace |-> tr0]
       ELSE IF fd THEN
           IF fallback # "none" /\ platform_fault # "wifi" THEN
               base @@ [pc |-> "fb_wait", rc |-> "none", out |-> out0,
                        trace |-> [tr0 EXCEPT !.path = "factory", !.fb_attempts = 1]]
           ELSE
               LET b == begin_provisioning(out0, platform_fault)
               IN base @@ [pc |-> b.pc, rc |-> b.rc, out |-> b.out,
                           trace |-> IF fallback # "none"
                                     THEN [tr0 EXCEPT !.path = "factory", !.fb_attempts = 1,
                                                      !.fb_result = "ESP_FAIL"]
                                     ELSE [tr0 EXCEPT !.path = "factory"]]
       ELSE
           IF platform_fault # "wifi" THEN
               base @@ [pc |-> "saved_wait", rc |-> "none", out |-> out0,
                        trace |-> [tr0 EXCEPT !.path = "reconnect"]]
           ELSE
               base @@ [pc |-> "done", rc |-> "ESP_FAIL", out |-> copy_hub_state(out0, hs),
                        trace |-> IF fallback = "both"
                                  THEN [tr0 EXCEPT !.path = "reconnect",
                                                   !.stored_result = "ESP_FAIL",
                                                   !.fb_attempts = 1, !.fb_result = "ESP_FAIL"]
                                  ELSE [tr0 EXCEPT !.path = "reconnect",
                                                   !.stored_result = "ESP_FAIL"]]

startup_onboarding_run ==
    /\ onb_pc = "idle"
    /\ LET r == startup_onboarding_run_outcome
       IN /\ hub_state' = r.hub_state
          /\ onboard_nvs' = r.nvs
          /\ retry_count' = r.retry_count
          /\ wifi_event_bits' = r.bits
          /\ onb_pc' = r.pc
          /\ onb_rc' = r.rc
          /\ out_state' = r.out
          /\ onb_trace' = r.trace
    /\ UNCHANGED <<nvs_fault, platform_fault, wifi_provisioned, fallback>>

\* The wait of the fallback attempt on the factory-default path ends: connected
\* short-circuits to success, anything else starts provisioning.
FallbackWaitEnd ==
    /\ onb_pc = "fb_wait"
    /\ LET r == wait_for_wifi(wifi_event_bits)
           s == fallback_connected(out_state, onboard_nvs, hub_state, nvs_fault)
           b == begin_provisioning(out_state, platform_fault)
       IN /\ wifi_event_bits' = {}
          /\ onb_trace' = [onb_trace EXCEPT !.fb_result = r]
          /\ IF r = "ESP_OK"
             THEN /\ out_state' = s.out
                  /\ onboard_nvs' = s.nvs
                  /\ onb_rc' = "ESP_OK"
                  /\ onb_pc' = "done"
             ELSE /\ out_state' = b.out
                  /\ onb_rc' = b.rc
                  /\ onb_pc' = b.pc
                  /\ UNCHANGED onboard_nvs
    /\ UNCHANGED <<nvs_fault, platform_fault, wifi_provisioned, fallback, retry_count, hub_state>>

\* One turn of the provisioning loop: the wait returns with the bits that were
\* set and clears them; the connected bit leaves the loop, the fail bit alone
\* waits again.
ProvisioningWaitStep ==
    /\ onb_pc = "prov_wait"
    /\ wifi_event_bits # {}
    /\ wifi_event_bits' = {}
    /\ IF "WIFI_CONNECTED_BIT" \in wifi_event_bits
       THEN LET c == persist_onboarding_complete(onboard_nvs, TRUE, nvs_fault)
                h == persist_hub_settings(c.nvs, hub_state.mqtt_uri, hub_state.hub_url, nvs_fault)
            IN /\ onboard_nvs' = h.nvs
               /\ out_state' = copy_hub_state([out_state EXCEPT !.wifi_connected = TRUE], hub_state)
               /\ onb_rc' = "ESP_OK"
               /\ onb_pc' = "done"
               /\ UNCHANGED onb_trace
       ELSE /\ onb_trace' = [onb_trace EXCEPT !.prov_fail_seen = TRUE]
            /\ UNCHANGED <<onboard_nvs, out_state, onb_rc, onb_pc>>
    /\ UNCHANGED <<nvs_fault, platform_fault, wifi_provisioned, fallback, retry_count, hub_state>>

\* The wait of the stored-credential attempt ends; on failure the fallback
\* attempt starts if both its ssid and password were supplied.
SavedWaitEnd ==
    /\ onb_pc = "saved_wait"
    /\ LET r == wait_for_wifi(wifi_event_bits)
       IN /\ wifi_event_bits' = {}
          /\ IF r = "ESP_OK"
             THEN /\ out_state' = copy_hub_state([out_state EXCEPT !.wifi_connected = TRUE], hub_state)
                  /\ onb_rc' = "ESP_OK"
                  /\ onb_pc' = "done"
                  /\ onb_trace' = [onb_trace EXCEPT !.stored_result = r]
                  /\ UNCHANGED retry_count
             ELSE IF fallback = "both"
             THEN /\ retry_count' = 0
                  /\ onb_pc' = "rc_fb_wait"
                  /\ onb_trace' = [onb_trace EXCEPT !.stored_result = r, !.fb_attempts = @ + 1,
                                                    !.attempt_connected = FALSE]
                  /\ UNCHANGED <<out_state, onb_rc>>
             ELSE /\ out_state' = copy_hub_state([out_state EXCEPT !.wifi_connected = FALSE], hub_state)
                  /\ onb_rc' = r
                  /\ onb_pc' = "done"
                  /\ onb_trace' = [onb_trace EXCEPT !.stored_result = r]
                  /\ UNCHANGED retry_count
    /\ UNCHANGED <<onboard_nvs, nvs_fault, platform_fault, wifi_provisioned, fallback, hub_state>>

\* The wait of the fallback attempt on the reconnect path ends, and the run
\* returns what it returned.
ReconnectFallbackWaitEnd ==
    /\ onb_pc = "rc_fb_wait"
    /\ LET r == wait_for_wifi(wifi_event_bits)
       IN /\ wifi_event_bits' = {}
          /\ out_state' = copy_hub_state([out_state EXCEPT !.wifi_connected = (r = "ESP_OK")],
                                         hub_state)
          /\ onb_rc' = r
          /\ onb_pc' = "done"
          /\ onb_trace' = [onb_trace EXCEPT !.fb_result = r]
    /\ UNCHANGED <<onboard_nvs, nvs_fault, platform_fault, wifi_provisioned, fallback,
                   retry_count, hub_state>>

Waiting == onb_pc \in {"fb_wait", "prov_wait", "saved_wait", "rc_fb_wait"}

\* The event loop delivers a Wi-Fi, IP or provisioning event to event_handler
\* while the run is waiting.
WifiEvent ==
    /\ Waiting
    /\ \E event_id \in {"WIFI_EVENT_STA_DISCONNECTED", "IP_EVENT_STA_GOT_IP",
                        "WIFI_PROV_CRED_FAIL", "WIFI_PROV_CRED_RECV"} :
          /\ event_id \in {"WIFI_PROV_CRED_FAIL", "WIFI_PROV_CRED_RECV"} => onb_pc = "prov_wait"
          /\ LET e == event_handler(event_id, retry_count, wifi_event_bits)
             IN /\ retry_count' = e.retry_count
                /\ wifi_event_bits' = e.bits
          /\ onb_trace' = IF event_id = "IP_EVENT_STA_GOT_IP"
                          THEN [onb_trace EXCEPT !.attempt_connected = TRUE]
                          ELSE onb_trace
    /\ UNCHANGED <<onboard_nvs, nvs_fault, platform_fault, wifi_provisioned, fallback, onb_pc,
                   hub_state, out_state, onb_rc>>

\* hub_data_handler / parse_hub_payload: the provisioner sends a broker and hub
\* address, which are kept and persisted at once.
HubPayload ==
    /\ onb_pc = "prov_wait"
    /\ hub_state' = [mqtt_uri |-> "hub_uri", hub_url |-> "hub_url"]
    /\ onboard_nvs' = persist_hub_settings(onboard_nvs, "hub_uri", "hub_url", nvs_fault).nvs
    /\ UNCHANGED <<nvs_fault, platform_fault, wifi_provisioned, fallback, onb_pc, wifi_event_bits,
                   retry_count, out_state, onb_rc, onb_trace>>

\* The device restarts after the run has returned: RAM state is gone, the
\* store stays, and the next boot meets its own credential store and faults.
OnbReboot ==
    /\ onb_pc = "done"
    /\ onb_pc' = "idle"
    /\ wifi_event_bits' = {}
    /\ retry_count' = 0
    /\ hub_state' = [mqtt_uri |-> "", hub_url |-> ""]
    /\ out_state' = ZeroOut
    /\ onb_rc' = "none"
    /\ onb_trace' = TraceInit
    /\ nvs_fault' \in NvsFaults
    /\ platform_fault' \in PlatformFaults
    /\ wifi_provisioned' \in BOOLEAN
    /\ UNCHANGED <<onboard_nvs, fallback>>

OnbInit ==
    /\ onboard_nvs \in OnbStores
    /\ nvs_fault \in NvsFaults
    /\ platform_fault \in PlatformFaults
    /\ wifi_provisioned \in BOOLEAN
    /\ fallback \in Fallbacks
    /\ onb_pc = "idle"
    /\ wifi_event_bits = {}
    /\ retry_count = 0
    /\ hub_state = [mqtt_uri |-> "", hub_url |-> ""]
    /\ out_state = ZeroOut
    /\ onb_rc = "none"
    /\ onb_trace = TraceInit

OnbIdle ==
    /\ onboard_nvs = EmptyOnboard
    /\ nvs_fault = "none"
    /\ platform_fault = "none"
    /\ wifi_provisioned = FALSE
    /\ fallback = "none"
    /\ onb_pc = "idle"
    /\ wifi_event_bits = {}
    /\ retry_count = 0
    /\ hub_state = [mqtt_uri |-> "", hub_url |-> ""]
    /\ out_state = ZeroOut
    /\ onb_rc = "none"
    /\ onb_trace = TraceInit


(***************************************************************************)
(* node_schedule.c: node_schedule_parse_hhmm                               *)
(*                                                                         *)
(* A C string is the sequence of its character codes up to the NUL; a NULL *)
(* pointer is NullPtr.  Characters are compared by code, as the code does. *)
(***************************************************************************)
NullPtr == [null |-> TRUE, chars |-> <<>>]
CStr(s) == [null |-> FALSE, chars |-> s]
CH_0 == 48
CH_9 == 57
CH_COLON == 58

strlen(value) == Len(value.chars)

\* Variant accepting hour 24.
node_schedule_parse_hhmm_hour24(value, out_minutes) ==
    IF value.null THEN [ok |-> FALSE, out |-> out_minutes]
    ELSE IF strlen(value) # 5 \/ value.chars[3] # CH_COLON THEN [ok |-> FALSE, out |-> out_minutes]
    ELSE IF \E i \in {1, 2, 4, 5} : value.chars[i] < CH_0 \/ value.chars[i] > CH_9
         THEN [ok |-> FALSE, out |-> out_minutes]
    ELSE LET hour == (value.chars[1] - CH_0) * 10 + (value.chars[2] - CH_0)
             minute == (value.chars[4] - CH_0) * 10 + (value.chars[5] - CH_0)
         IN  IF hour < 0 \/ hour > 24 \/ minute < 0 \/ minute > 59
             THEN [ok |-> FALSE, out |-> out_minutes]
             ELSE [ok |-> TRUE, out |-> (hour * 60 + minute) % (UINT16_MAX + 1)]

\* value[k] of the code is value[k+1] here (sequences start at 1).  The result
\* is the returned bool and the content of *out_minutes after the call.
node_schedule_parse_hhmm(value, out_minutes) ==
    IF value.null THEN [ok |-> FALSE, out |-> out_minutes]
    ELSE IF strlen(value) # 5 \/ value.chars[3] # CH_COLON THEN [ok |-> FALSE, out |-> out_minutes]
    ELSE IF \E i \in {1, 2, 4, 5} : value.chars[i] < CH_0 \/ value.chars[i] > CH_9
         THEN [ok |-> FALSE, out |-> out_minutes]
    ELSE LET hour == (value.chars[1] - CH_0) * 10 + (value.chars[2] - CH_0)
             minute == (value.chars[4] - CH_0) * 10 + (value.chars[5] - CH_0)
         IN  IF hour < 0 \/ hour > 23 \/ minute < 0 \/ minute > 59
             THEN [ok |-> FALSE, out |-> out_minutes]
             ELSE [ok |-> TRUE, out |-> (hour * 60 + minute) % (UINT16_MAX + 1)]

\* Strings the function is called on: every 5-character string over the digits
\* that reach the hour and minute limits, ':' (the code after '9') and '/' (the
\* code before '0'); every string of another length up to 6 over '0', '1', ':';
\* and NULL.
HhmmInputs ==
    LET alphabet == {CH_0 - 1, CH_0, CH_0 + 1, CH_0 + 2, CH_0 + 3, CH_0 + 4, CH_0 + 5,
                     CH_0 + 6, CH_9, CH_COLON}
        short_alphabet == {CH_0, CH_0 + 1, CH_COLON}
        strings == [1..5 -> alphabet]
                      \cup UNION {[1..n -> short_alphabet] : n \in {0, 1, 2, 3, 4, 6}}
    IN  {NullPtr} \cup {CStr(s) : s \in strings}

HhmmIdle == hh_value = NullPtr /\ hh_out = 0 /\ hh_result = <<>>
HhmmInit == hh_value \in HhmmInputs /\ hh_out = UINT16_MAX /\ hh_result = <<>>
ParseHhmm ==
    /\ hh_result = <<>>
    /\ LET r == node_schedule_parse_hhmm(hh_value, hh_out)
       IN  hh_result' = <<r.ok>> /\ hh_out' = r.out
    /\ UNCHANGED hh_value



(***************************************************************************)
(* plant_mqtt.h / plant_mqtt.c: the command parser                         *)
(*                                                                         *)
(* A parsed JSON item is a record: t is its type ("absent" for the NULL    *)
(* that a lookup of a missing key returns), b the value of a bool, s the   *)
(* character codes of a string, n a number and o the members of an object  *)
(* (<<>> when it is not one).  A number is written in decimal: sign, the   *)
(* billions g, the rest r below 10^9 and one fractional digit f, so        *)
(* that values beyond the range of int can be written down.                *)
(***************************************************************************)
MQTT_REQUEST_ID_MAX_LEN == 64
DEVICE_NAME_MAX_LEN == 32
INT_MAX == 2147483647
INT_MIN == -INT_MAX - 1

STR_on == <<111, 110>>    \* "on"
STR_off == <<111, 102, 102>>    \* "off"
STR_sensor_read == <<115, 101, 110, 115, 111, 114, 95, 114, 101, 97, 100>>    \* "sensor_read"
STR_sensorRead == <<115, 101, 110, 115, 111, 114, 82, 101, 97, 100>>    \* "sensorRead"
STR_control_only == <<99, 111, 110, 116, 114, 111, 108, 95, 111, 110, 108, 121>>    \* "control_only"
STR_control_dash_only == <<99, 111, 110, 116, 114, 111, 108, 45, 111, 110, 108, 121>>    \* "control-only"
STR_control == <<99, 111, 110, 116, 114, 111, 108>>    \* "control"
STR_full == <<102, 117, 108, 108>>    \* "full"
STR_sensors == <<115, 101, 110, 115, 111, 114, 115>>    \* "sensors"
STR_enabled == <<101, 110, 97, 98, 108, 101, 100>>    \* "enabled"

Num(neg, g, r, f) == [neg |-> neg, g |-> g, r |-> r, f |-> f]
JItem(t, b, s, n, o) == [t |-> t, b |-> b, s |-> s, n |-> n, o |-> o]
JAbsent == JItem("absent", FALSE, <<>>, Num(FALSE, 0, 0, 0), <<>>)
JNull == JItem("null", FALSE, <<>>, Num(FALSE, 0, 0, 0), <<>>)
JBool(b) == JItem("bool", b, <<>>, Num(FALSE, 0, 0, 0), <<>>)
JStr(s) == JItem("string", FALSE, s, Num(FALSE, 0, 0, 0), <<>>)
JNum(n) == JItem("number", FALSE, <<>>, n, <<>>)
JInt(i) == JNum(IF i < 0 THEN Num(TRUE, (-i) \div 1000000000, (-i) % 1000000000, 0)
                         ELSE Num(FALSE, i \div 1000000000, i % 1000000000, 0))
JObj(members) == JItem("object", FALSE, <<>>, Num(FALSE, 0, 0, 0), <<members>>)

cJSON_IsBool(item) == item.t = "bool"
cJSON_IsTrue(item) == item.t = "bool" /\ item.b
cJSON_IsString(item) == item.t = "string"
cJSON_IsNumber(item) == item.t = "number"
cJSON_IsObject(item) == item.t = "object"
cJSON_GetObjectItemCaseSensitive(object, name) ==
    IF object.t = "object" /\ name \in DOMAIN object.o[1] THEN object.o[1][name] ELSE JAbsent

\* item->valueint: the number converted to int, saturating at INT_MAX and
\* INT_MIN and dropping the fraction otherwise.
valueint(item) ==
    LET n == item.n
        beyond == n.g > INT_MAX \div 1000000000
                    \/ (n.g = INT_MAX \div 1000000000 /\ n.r >= INT_MAX % 1000000000)
    IN  IF ~n.neg
        THEN IF beyond THEN INT_MAX ELSE n.g * 1000000000 + n.r
        ELSE IF n.g > INT_MAX \div 1000000000
                  \/ (n.g = INT_MAX \div 1000000000 /\ n.r > INT_MAX % 1000000000)
             THEN INT_MIN
             ELSE -(n.g * 1000000000 + n.r)

tolower(c) == IF c \in 65..90 THEN c + 32 ELSE c
strcasecmp_equal(a, b) ==
    Len(a) = Len(b) /\ \A i \in 1..Len(a) : tolower(a[i]) = tolower(b[i])



\* Variant reading every string as "on".
actuator_value_any_string(item) ==
    IF cJSON_IsBool(item) THEN cJSON_IsTrue(item)
    ELSE TRUE

\* What the four actuator branches compute from the key's item.
actuator_value(item) ==
    IF cJSON_IsBool(item) THEN cJSON_IsTrue(item)
    ELSE IF item.s = STR_on THEN TRUE
    ELSE FALSE

\* What the four actuator branches store in duration_ms (0 is the default).
duration_value(root) ==
    LET duration == cJSON_GetObjectItemCaseSensitive(root, "duration_ms")
    IN  IF cJSON_IsNumber(duration) /\ valueint(duration) > 0 THEN valueint(duration) ELSE 0

parse_schedule_timer(schedule_obj, name, out_timer) ==
    LET timer_obj == cJSON_GetObjectItemCaseSensitive(schedule_obj, name)
        enabled == cJSON_GetObjectItemCaseSensitive(timer_obj, "enabled")
        start_time == cJSON_GetObjectItemCaseSensitive(timer_obj, "startTime")
        end_time == cJSON_GetObjectItemCaseSensitive(timer_obj, "endTime")
        start_minute == node_schedule_parse_hhmm(CStr(start_time.s), 0)
        end_minute == node_schedule_parse_hhmm(CStr(end_time.s), 0)
    IN  IF ~cJSON_IsObject(timer_obj) THEN [ok |-> FALSE, timer |-> out_timer]
        ELSE IF ~cJSON_IsBool(enabled) \/ ~cJSON_IsString(start_time) \/ ~cJSON_IsString(end_time)
             THEN [ok |-> FALSE, timer |-> out_timer]
        ELSE IF ~start_minute.ok \/ ~end_minute.ok THEN [ok |-> FALSE, timer |-> out_timer]
        ELSE [ok |-> TRUE, timer |-> Timer(cJSON_IsTrue(enabled), start_minute.out, end_minute.out)]

\* Variant that gives up only when none of the four windows parses.
parse_schedule_config_any_timer(root, out_schedule) ==
    LET schedule_obj == cJSON_GetObjectItemCaseSensitive(root, "schedule")
        d == node_schedule_defaults
        light == parse_schedule_timer(schedule_obj, "light", d.light)
        pump == parse_schedule_timer(schedule_obj, "pump", d.pump)
        mister == parse_schedule_timer(schedule_obj, "mister", d.mister)
        fan == parse_schedule_timer(schedule_obj, "fan", d.fan)
    IN  IF ~cJSON_IsObject(schedule_obj) THEN [ok |-> FALSE, schedule |-> out_schedule]
        ELSE IF ~light.ok /\ ~pump.ok /\ ~mister.ok /\ ~fan.ok
             THEN [ok |-> FALSE, schedule |-> out_schedule]
        ELSE [ok |-> TRUE,
              schedule |-> MkSchedule(light.timer, pump.timer, mister.timer, fan.timer,
                                      d.timezone_offset_minutes)]

\* Variant that falls back to the offset of the live schedule.
parse_schedule_config_keeps_live_offset(root, out_schedule) ==
    LET schedule_obj == cJSON_GetObjectItemCaseSensitive(root, "schedule")
        d == node_schedule_defaults
        light == parse_schedule_timer(schedule_obj, "light", d.light)
        pump == parse_schedule_timer(schedule_obj, "pump", d.pump)
        mister == parse_schedule_timer(schedule_obj, "mister", d.mister)
        fan == parse_schedule_timer(schedule_obj, "fan", d.fan)
        at_root == cJSON_GetObjectItemCaseSensitive(root, "tzOffsetMinutes")
        tz_offset == IF at_root.t = "absent"
                     THEN cJSON_GetObjectItemCaseSensitive(schedule_obj, "tzOffsetMinutes")
                     ELSE at_root
        tz_value == valueint(tz_offset)
        tz == IF cJSON_IsNumber(tz_offset) /\ tz_value >= -720 /\ tz_value <= 840
              THEN tz_value ELSE schedule_state.timezone_offset_minutes
    IN  IF ~cJSON_IsObject(schedule_obj) THEN [ok |-> FALSE, schedule |-> out_schedule]
        ELSE IF ~light.ok \/ ~pump.ok \/ ~mister.ok \/ ~fan.ok
             THEN [ok |-> FALSE, schedule |-> out_schedule]
        ELSE [ok |-> TRUE,
              schedule |-> MkSchedule(light.timer, pump.timer, mister.timer, fan.timer, tz)]

parse_schedule_config(root, out_schedule) ==
    LET schedule_obj == cJSON_GetObjectItemCaseSensitive(root, "schedule")
        d == node_schedule_defaults
        light == parse_schedule_timer(schedule_obj, "light", d.light)
        pump == parse_schedule_timer(schedule_obj, "pump", d.pump)
        mister == parse_schedule_timer(schedule_obj, "mister", d.mister)
        fan == parse_schedule_timer(schedule_obj, "fan", d.fan)
        at_root == cJSON_GetObjectItemCaseSensitive(root, "tzOffsetMinutes")
        tz_offset == IF at_root.t = "absent"
                     THEN cJSON_GetObjectItemCaseSensitive(schedule_obj, "tzOffsetMinutes")
                     ELSE at_root
        tz_value == valueint(tz_offset)
        tz == IF cJSON_IsNumber(tz_offset) /\ tz_value >= -720 /\ tz_value <= 840
              THEN tz_value ELSE d.timezone_offset_minutes
    IN  IF ~cJSON_IsObject(schedule_obj) THEN [ok |-> FALSE, schedule |-> out_schedule]
        ELSE IF ~light.ok \/ ~pump.ok \/ ~mister.ok \/ ~fan.ok
             THEN [ok |-> FALSE, schedule |-> out_schedule]
        ELSE [ok |-> TRUE,
              schedule |-> MkSchedule(light.timer, pump.timer, mister.timer, fan.timer, tz)]

\* The initializer of cmd (lines 408-421).
DefaultCommand ==
    [type |-> "MQTT_CMD_UNKNOWN", request_id |-> <<>>, device_name |-> <<>>,
     has_sensor_mode |-> FALSE, has_schedule |-> FALSE, sensor_mode |-> "SENSOR_MODE_FULL",
     schedule |-> node_schedule_defaults,
     pump_on |-> FALSE, fan_on |-> FALSE, mister_on |-> FALSE, light_on |-> FALSE,
     duration_ms |-> 0]

\* A payload is the pointer (null or not), payload_len and what cJSON_Parse
\* makes of the text: <<>> when it returns NULL, else <<the root item>>.  The
\* calloc of the copy is taken to succeed.
Payload(null, len, parsed) == [null |-> null, len |-> len, parsed |-> parsed]

\* Variant copying an id of exactly MQTT_REQUEST_ID_MAX_LEN characters.
parse_request_id_inclusive(root, cmd) ==
    LET request_id == cJSON_GetObjectItemCaseSensitive(root, "requestId")
    IN  IF cJSON_IsString(request_id)
        THEN IF Len(request_id.s) <= MQTT_REQUEST_ID_MAX_LEN
             THEN [cmd EXCEPT !.request_id = request_id.s]
             ELSE [cmd EXCEPT !.request_id = <<>>]
        ELSE cmd

\* The steps of mqtt_parse_command after a successful cJSON_Parse, each taking
\* the command built so far.
parse_request_id(root, cmd) ==
    LET request_id == cJSON_GetObjectItemCaseSensitive(root, "requestId")
    IN  IF cJSON_IsString(request_id)
        THEN IF Len(request_id.s) < MQTT_REQUEST_ID_MAX_LEN
             THEN [cmd EXCEPT !.request_id = request_id.s]
             ELSE [cmd EXCEPT !.request_id = <<>>]
        ELSE cmd


\* Variant that marks the command for any string under the name key.
parse_device_name_any_string(root, cmd) ==
    LET first == cJSON_GetObjectItemCaseSensitive(root, "deviceName")
        name_item == IF first.t = "absent"
                       THEN cJSON_GetObjectItemCaseSensitive(root, "displayName")
                       ELSE first
        name_len == Len(name_item.s)
    IN  IF cJSON_IsString(name_item)
        THEN IF name_len > 0 /\ name_len < DEVICE_NAME_MAX_LEN
             THEN [cmd EXCEPT !.device_name = name_item.s, !.type = "MQTT_CMD_CONFIG_UPDATE"]
             ELSE [cmd EXCEPT !.device_name = <<>>, !.type = "MQTT_CMD_CONFIG_UPDATE"]
        ELSE cmd

parse_device_name(root, cmd) ==
    LET first == cJSON_GetObjectItemCaseSensitive(root, "deviceName")
        name_item == IF first.t = "absent"
                       THEN cJSON_GetObjectItemCaseSensitive(root, "displayName")
                       ELSE first
        name_len == Len(name_item.s)
    IN  IF cJSON_IsString(name_item)
        THEN IF name_len > 0 /\ name_len < DEVICE_NAME_MAX_LEN
             THEN [cmd EXCEPT !.device_name = name_item.s, !.type = "MQTT_CMD_CONFIG_UPDATE"]
             ELSE [cmd EXCEPT !.device_name = <<>>]
        ELSE cmd

parse_sensor_mode(root, cmd) ==
    LET mode_item == cJSON_GetObjectItemCaseSensitive(root, "sensorMode")
        sensors_enabled == cJSON_GetObjectItemCaseSensitive(root, "sensorsEnabled")
        by_name ==
            IF ~cJSON_IsString(mode_item) THEN cmd
            ELSE IF \E w \in {STR_control_only, STR_control_dash_only, STR_control} :
                        strcasecmp_equal(mode_item.s, w)
                 THEN [cmd EXCEPT !.sensor_mode = "SENSOR_MODE_CONTROL_ONLY",
                                  !.has_sensor_mode = TRUE, !.type = "MQTT_CMD_CONFIG_UPDATE"]
            ELSE IF \E w \in {STR_full, STR_sensors, STR_enabled} :
                        strcasecmp_equal(mode_item.s, w)
                 THEN [cmd EXCEPT !.sensor_mode = "SENSOR_MODE_FULL",
                                  !.has_sensor_mode = TRUE, !.type = "MQTT_CMD_CONFIG_UPDATE"]
            ELSE cmd
    IN  IF cJSON_IsBool(sensors_enabled)
        THEN [by_name EXCEPT !.sensor_mode = IF cJSON_IsTrue(sensors_enabled)
                                             THEN "SENSOR_MODE_FULL"
                                             ELSE "SENSOR_MODE_CONTROL_ONLY",
                             !.has_sensor_mode = TRUE, !.type = "MQTT_CMD_CONFIG_UPDATE"]
        ELSE by_name

parse_schedule(root, cmd) ==
    LET r == parse_schedule_config(root, cmd.schedule)
    IN  IF r.ok
        THEN [cmd EXCEPT !.schedule = r.schedule, !.has_schedule = TRUE,
                         !.type = "MQTT_CMD_CONFIG_UPDATE"]
        ELSE cmd


\* Variant that never consults "command".
parse_action_only(root, cmd) ==
    LET action == cJSON_GetObjectItemCaseSensitive(root, "action")
    IN  IF cJSON_IsString(action) /\ action.s \in {STR_sensor_read, STR_sensorRead}
        THEN [cmd EXCEPT !.type = "MQTT_CMD_SENSOR_READ"]
        ELSE cmd

parse_action(root, cmd) ==
    LET action == cJSON_GetObjectItemCaseSensitive(root, "action")
        command == cJSON_GetObjectItemCaseSensitive(root, "command")
        action_value == IF cJSON_IsString(action) THEN <<action.s>>
                        ELSE IF cJSON_IsString(command) THEN <<command.s>>
                        ELSE <<>>
    IN  IF action_value # <<>> /\ action_value[1] \in {STR_sensor_read, STR_sensorRead}
        THEN [cmd EXCEPT !.type = "MQTT_CMD_SENSOR_READ"]
        ELSE cmd

\* Variant of the actuator chain that looks at fan before pump.
parse_actuators_fan_first(root, cmd) ==
    LET fan == cJSON_GetObjectItemCaseSensitive(root, "fan")
            IN  IF fan.t # "absent" /\ (cJSON_IsBool(fan) \/ cJSON_IsString(fan))
                THEN [cmd EXCEPT !.type = "MQTT_CMD_FAN_OVERRIDE",
                                 !.fan_on = actuator_value(fan),
                                 !.duration_ms = duration_value(root)]
                ELSE LET pump == cJSON_GetObjectItemCaseSensitive(root, "pump")
            IN  IF pump.t # "absent" /\ (cJSON_IsBool(pump) \/ cJSON_IsString(pump))
                THEN [cmd EXCEPT !.type = "MQTT_CMD_PUMP_OVERRIDE",
                                 !.pump_on = actuator_value(pump),
                                 !.duration_ms = duration_value(root)]
                ELSE LET mister == cJSON_GetObjectItemCaseSensitive(root, "mister")
            IN  IF mister.t # "absent" /\ (cJSON_IsBool(mister) \/ cJSON_IsString(mister))
                THEN [cmd EXCEPT !.type = "MQTT_CMD_MISTER_OVERRIDE",
                                 !.mister_on = actuator_value(mister),
                                 !.duration_ms = duration_value(root)]
                ELSE LET light == cJSON_GetObjectItemCaseSensitive(root, "light")
            IN  IF light.t # "absent" /\ (cJSON_IsBool(light) \/ cJSON_IsString(light))
                THEN [cmd EXCEPT !.type = "MQTT_CMD_LIGHT_OVERRIDE",
                                 !.light_on = actuator_value(light),
                                 !.duration_ms = duration_value(root)]
                ELSE cmd

parse_actuators(root, cmd) ==
    LET pump == cJSON_GetObjectItemCaseSensitive(root, "pump")
            IN  IF pump.t # "absent" /\ (cJSON_IsBool(pump) \/ cJSON_IsString(pump))
                THEN [cmd EXCEPT !.type = "MQTT_CMD_PUMP_OVERRIDE",
                                 !.pump_on = actuator_value(pump),
                                 !.duration_ms = duration_value(root)]
                ELSE LET fan == cJSON_GetObjectItemCaseSensitive(root, "fan")
            IN  IF fan.t # "absent" /\ (cJSON_IsBool(fan) \/ cJSON_IsString(fan))
                THEN [cmd EXCEPT !.type = "MQTT_CMD_FAN_OVERRIDE",
                                 !.fan_on = actuator_value(fan),
                                 !.duration_ms = duration_value(root)]
                ELSE LET mister == cJSON_GetObjectItemCaseSensitive(root, "mister")
            IN  IF mister.t # "absent" /\ (cJSON_IsBool(mister) \/ cJSON_IsString(mister))
                THEN [cmd EXCEPT !.type = "MQTT_CMD_MISTER_OVERRIDE",
                                 !.mister_on = actuator_value(mister),
                                 !.duration_ms = duration_value(root)]
                ELSE LET light == cJSON_GetObjectItemCaseSensitive(root, "light")
            IN  IF light.t # "absent" /\ (cJSON_IsBool(light) \/ cJSON_IsString(light))
                THEN [cmd EXCEPT !.type = "MQTT_CMD_LIGHT_OVERRIDE",
                                 !.light_on = actuator_value(light),
                                 !.duration_ms = duration_value(root)]
                ELSE cmd


\* Variant that looks at action and command after the actuator keys.
mqtt_parse_command_action_last(payload) ==
    IF payload.null \/ payload.len <= 0 THEN DefaultCommand
    ELSE IF payload.parsed = <<>> THEN DefaultCommand
    ELSE LET root == payload.parsed[1]
             config == parse_schedule(root,
                         parse_sensor_mode(root,
                           parse_device_name(root,
                             parse_request_id(root, DefaultCommand))))
         IN  IF config.type = "MQTT_CMD_CONFIG_UPDATE" THEN config
             ELSE parse_action(root, parse_actuators(root, config))

\* Variant without the payload_len test.
mqtt_parse_command_any_len(payload) ==
    IF payload.null THEN DefaultCommand
    ELSE IF payload.parsed = <<>> THEN DefaultCommand
    ELSE LET root == payload.parsed[1]
             config == parse_schedule(root,
                         parse_sensor_mode(root,
                           parse_device_name(root,
                             parse_request_id(root, DefaultCommand))))
         IN  IF config.type = "MQTT_CMD_CONFIG_UPDATE" THEN config
             ELSE parse_actuators(root, parse_action(root, config))

\* Variant without the early return of a configuration update.
mqtt_parse_command_no_priority(payload) ==
    IF payload.null \/ payload.len <= 0 THEN DefaultCommand
    ELSE IF payload.parsed = <<>> THEN DefaultCommand
    ELSE LET root == payload.parsed[1]
             config == parse_schedule(root,
                         parse_sensor_mode(root,
                           parse_device_name(root,
                             parse_request_id(root, DefaultCommand))))
         IN  parse_actuators(root, parse_action(root, config))

mqtt_parse_command(payload) ==
    IF payload.null \/ payload.len <= 0 THEN DefaultCommand
    ELSE IF payload.parsed = <<>> THEN DefaultCommand
    ELSE LET root == payload.parsed[1]
             config == parse_schedule(root,
                         parse_sensor_mode(root,
                           parse_device_name(root,
                             parse_request_id(root, DefaultCommand))))
         IN  IF config.type = "MQTT_CMD_CONFIG_UPDATE" THEN config
             ELSE parse_actuators(root, parse_action(root, config))


(***************************************************************************)
(* Payloads the parser is applied to.  A root object is a function from    *)
(* key names to items; a key whose item is JAbsent is not in the message.  *)
(***************************************************************************)
JsonKeys == {"requestId", "deviceName", "displayName", "sensorMode", "sensorsEnabled",
             "schedule", "tzOffsetMinutes", "action", "command",
             "pump", "fan", "mister", "light", "duration_ms"}
Root(members) ==
    JObj([k \in JsonKeys |-> IF k \in DOMAIN members THEN members[k] ELSE JAbsent])

\* The payloads of ParseInit: messages about actuators, messages about the
\* configuration alone or with actuator and read fields, messages asking for
\* a reading with request ids around the 64-byte bound, and what never
\* reaches the key lookups.
PayloadInputs ==
    LET
        Chars(n) == [i \in 1..n |-> 97]                     \* "aaa...a", n characters
        STR_req_123 == <<114, 101, 113, 45, 49, 50, 51>>            \* "req-123"
        STR_pot == <<112, 111, 116>>                            \* "pot"
        STR_fern == <<102, 101, 114, 110>>                      \* "fern"
        STR_other == <<111, 116, 104, 101, 114>>                 \* "other"
        STR_ON == <<79, 78>>                                  \* "ON"
        STR_SENSOR_READ == <<83, 69, 78, 83, 79, 82, 95, 82, 69, 65, 68>>   \* "SENSOR_READ"
        STR_Control_Only == <<67, 111, 110, 116, 114, 111, 108, 45, 79, 110, 108, 121>>   \* "Control-Only"
        T_0600 == <<48, 54, 58, 48, 48>>                    \* "06:00"
        T_2359 == <<50, 51, 58, 53, 57>>                    \* "23:59"
        T_2400 == <<50, 52, 58, 48, 48>>                    \* "24:00"

        TimerItem(en, st, et) == JObj([enabled |-> en, startTime |-> JStr(st), endTime |-> JStr(et)])
        ScheduleItem(fan, tz) ==
            JObj([light |-> TimerItem(JBool(TRUE), T_0600, T_2359),
                  pump |-> TimerItem(JBool(FALSE), T_2359, T_0600),
                  mister |-> TimerItem(JBool(TRUE), T_0600, T_0600),
                  fan |-> fan,
                  tzOffsetMinutes |-> tz])
        ScheduleItems ==
            {JAbsent, JStr(STR_on),
             ScheduleItem(TimerItem(JBool(TRUE), T_0600, T_2359), JAbsent),
             ScheduleItem(TimerItem(JBool(TRUE), T_0600, T_2359), JInt(-60)),
             ScheduleItem(TimerItem(JBool(TRUE), T_0600, T_2400), JAbsent),
             ScheduleItem(TimerItem(JInt(1), T_0600, T_2359), JAbsent),
             ScheduleItem(JAbsent, JAbsent)}

        ActuatorItems == {JAbsent, JBool(TRUE), JBool(FALSE), JStr(STR_on), JStr(STR_off), JInt(1)}
        DurationItems ==
            {JAbsent, JInt(1500), JInt(0), JInt(-5), JInt(INT_MAX), JStr(STR_on),
             JNum(Num(FALSE, 0, 1, 5)),                     \* 1.5
             JNum(Num(FALSE, 3, 0, 0))}                     \* 3000000000

        \* Messages about actuators.
        ActuatorPayload ==
            \E id \in {JAbsent, JStr(Chars(MQTT_REQUEST_ID_MAX_LEN))},
                p \in ActuatorItems, f \in ActuatorItems, m \in ActuatorItems, l \in ActuatorItems,
                d \in DurationItems, a \in {JAbsent, JStr(STR_sensor_read)} :
                pp_payload = Payload(FALSE, 20, <<Root([requestId |-> id, pump |-> p, fan |-> f,
                                                        mister |-> m, light |-> l,
                                                        duration_ms |-> d, action |-> a])>>)

        \* Messages about the configuration, alone or with actuator and read fields.
        ConfigExtras ==
            {[pump |-> JAbsent, fan |-> JAbsent, duration_ms |-> JAbsent, action |-> JAbsent],
             [pump |-> JStr(STR_on), fan |-> JAbsent, duration_ms |-> JInt(1500), action |-> JAbsent],
             [pump |-> JAbsent, fan |-> JBool(TRUE), duration_ms |-> JAbsent, action |-> JAbsent],
             [pump |-> JAbsent, fan |-> JAbsent, duration_ms |-> JAbsent, action |-> JStr(STR_sensor_read)]}
        ConfigPayload ==
            \E dn \in {JAbsent, JStr(STR_pot), JStr(<<>>), JStr(Chars(DEVICE_NAME_MAX_LEN)), JInt(1)},
                ds \in {JAbsent, JStr(STR_fern)},
                sm \in {JAbsent, JStr(STR_full), JStr(STR_Control_Only), JStr(STR_other), JBool(TRUE)},
                se \in {JAbsent, JBool(TRUE), JBool(FALSE), JStr(STR_on)},
                sc \in ScheduleItems,
                tz \in {JAbsent, JInt(60), JInt(900), JInt(-720)},
                x \in ConfigExtras :
                pp_payload = Payload(FALSE, 20, <<Root([deviceName |-> dn, displayName |-> ds,
                                                        sensorMode |-> sm, sensorsEnabled |-> se,
                                                        schedule |-> sc, tzOffsetMinutes |-> tz,
                                                        pump |-> x.pump, fan |-> x.fan,
                                                        duration_ms |-> x.duration_ms,
                                                        action |-> x.action])>>)

        \* Messages asking for a reading, with request ids around the 64-byte bound.
        ReadPayload ==
            \E id \in {JAbsent, JStr(STR_req_123), JStr(<<>>), JInt(7),
                        JStr(Chars(MQTT_REQUEST_ID_MAX_LEN - 1)),
                        JStr(Chars(MQTT_REQUEST_ID_MAX_LEN)),
                        JStr(Chars(MQTT_REQUEST_ID_MAX_LEN + 15))},
                a \in {JAbsent, JStr(STR_sensor_read), JStr(STR_sensorRead), JStr(STR_other),
                       JStr(STR_SENSOR_READ), JInt(1)},
                c \in {JAbsent, JStr(STR_sensor_read), JStr(STR_other)},
                p \in {JAbsent, JStr(STR_on), JStr(STR_ON), JInt(1)},
                l \in {JAbsent, JBool(FALSE)},
                dn \in {JAbsent, JStr(STR_pot)} :
                pp_payload = Payload(FALSE, 20, <<Root([requestId |-> id, action |-> a, command |-> c,
                                                        pump |-> p, light |-> l, deviceName |-> dn])>>)

        \* What never reaches the key lookups, and roots that are no object.
        OtherPayload ==
            pp_payload \in {Payload(TRUE, 0, <<>>), Payload(TRUE, 20, <<>>), Payload(FALSE, 0, <<>>),
                            Payload(FALSE, -1, <<>>), Payload(FALSE, 0, <<Root([pump |-> JBool(TRUE)])>>),
                            Payload(FALSE, 13, <<>>), Payload(FALSE, 20, <<JInt(5)>>),
                            Payload(FALSE, 20, <<JNull>>), Payload(FALSE, 20, <<JStr(STR_on)>>)}
    IN  ActuatorPayload \/ ConfigPayload \/ ReadPayload \/ OtherPayload

ParseIdle == pp_payload = Payload(TRUE, 0, <<>>) /\ pp_cmd = <<>>
ParseInit == PayloadInputs /\ pp_cmd = <<>>
ParseCommand ==
    /\ pp_cmd = <<>>
    /\ pp_cmd' = <<mqtt_parse_command(pp_payload)>>
    /\ UNCHANGED pp_payload

(***************************************************************************)
(* The command path: mqtt_event_handler (plant_mqtt.c) parses a message    *)
(* and hands it to mqtt_command_dispatch (app_main.c), which queues it for *)
(* handle_command_task.  command_queue has been created and the MQTT       *)
(* client started.  Each message carries its arrival number n, which the   *)
(* code does not have, so that the histories can name it.                  *)
(***************************************************************************)
COMMAND_QUEUE_LENGTH == 4
MaxArrivals == 6
MaxCommands == 2

\* Variant that makes room by discarding the oldest item.
mqtt_command_dispatch_drop_oldest(queue, item) ==
    IF Len(queue) < COMMAND_QUEUE_LENGTH THEN Append(queue, item)
    ELSE Append(Tail(queue), item)

\* xQueueSend(command_queue, cmd, 0): the queue after the call.
mqtt_command_dispatch(queue, item) ==
    IF Len(queue) < COMMAND_QUEUE_LENGTH THEN Append(queue, item) ELSE queue

\* The message of event n, as its topic (the command topic or not) and its
\* payload: a timed pump override or a text that is no JSON; for the first
\* two events also a light override, a pump switch-off, a name and
\* sensor-mode update, a read request, a message on another topic, and
\* configuration messages whose schedule object has one sub-object that is
\* missing, lacks a field or holds a time that is no HH:MM.
MessagesAt(n) ==
    LET timed_pump == Payload(FALSE, 20, <<Root([pump |-> JStr(STR_on), duration_ms |-> JInt(1500)])>>)
        no_json == Payload(FALSE, 13, <<>>)
        light_on == Payload(FALSE, 20, <<Root([light |-> JBool(TRUE)])>>)
        pump_off == Payload(FALSE, 20, <<Root([pump |-> JBool(FALSE)])>>)
        config == Payload(FALSE, 20, <<Root([deviceName |-> JStr(STR_full),
                                             sensorsEnabled |-> JBool(FALSE)])>>)
        read == Payload(FALSE, 20, <<Root([action |-> JStr(STR_sensor_read)])>>)
        T_0600 == <<48, 54, 58, 48, 48>>                    \* "06:00"
        T_2200 == <<50, 50, 58, 48, 48>>                    \* "22:00"
        T_2400 == <<50, 52, 58, 48, 48>>                    \* "24:00"
        good == JObj([enabled |-> JBool(TRUE), startTime |-> JStr(T_0600), endTime |-> JStr(T_2200)])
        flawed == [light |-> JAbsent,
                   pump |-> JObj([enabled |-> JBool(TRUE), startTime |-> JStr(T_0600)]),
                   mister |-> JObj([enabled |-> JBool(TRUE), startTime |-> JStr(T_0600),
                                    endTime |-> JStr(T_2400)]),
                   fan |-> JObj([enabled |-> JInt(1), startTime |-> JStr(T_0600),
                                 endTime |-> JStr(T_2200)])]
        broken(timer, bad) ==
            Payload(FALSE, 200,
                    <<Root([deviceName |-> JStr(STR_sensors), sensorMode |-> JStr(STR_control),
                            schedule |-> JObj([t \in TimerNames |-> IF t = timer THEN bad ELSE good])])>>)
    IN  {<<TRUE, timed_pump>>, <<TRUE, no_json>>}
            \cup (IF n <= 2
                  THEN {<<TRUE, light_on>>, <<TRUE, pump_off>>, <<TRUE, config>>, <<TRUE, read>>,
                        <<FALSE, timed_pump>>}
                  ELSE {})
            \cup (IF n = 1
                  THEN {<<TRUE, broken(timer, flawed[timer])>> : timer \in TimerNames}
                  ELSE {})

\* The messages that meet the schedule task and the sensor task: switch-ons
\* of light and pump without duration, a timed pump switch-on, a sensor-mode
\* update, and configuration messages whose schedule object
\* is complete and comes with no offset, with 900 or with -300.
OvrMessages ==
    LET T_0600 == <<48, 54, 58, 48, 48>>                    \* "06:00"
        T_2200 == <<50, 50, 58, 48, 48>>                    \* "22:00"
        good == JObj([enabled |-> JBool(TRUE), startTime |-> JStr(T_0600), endTime |-> JStr(T_2200)])
        timed(tz) ==
            Payload(FALSE, 200,
                    <<Root([schedule |-> JObj([t \in TimerNames |-> good]), tzOffsetMinutes |-> tz])>>)
    IN  {<<TRUE, Payload(FALSE, 20, <<Root([light |-> JBool(TRUE)])>>)>>,
         <<TRUE, Payload(FALSE, 20, <<Root([pump |-> JStr(STR_on)])>>)>>,
         <<TRUE, Payload(FALSE, 20, <<Root([pump |-> JStr(STR_on), duration_ms |-> JInt(1500)])>>)>>,
         <<TRUE, Payload(FALSE, 20, <<Root([sensorsEnabled |-> JBool(FALSE)])>>)>>}
            \cup {<<TRUE, timed(tz)>> : tz \in {JAbsent, JInt(900), JInt(-300)}}

\* case MQTT_EVENT_DATA of mqtt_event_handler, for one message: cmd is what
\* mqtt_parse_command returns (parsed once), queue is command_queue after
\* the dispatch callback.
mqtt_event_data(message) ==
    /\ \E cmd \in {mqtt_parse_command(message[2])} :
         \E queue \in {IF message[1] /\ cmd.type # "MQTT_CMD_UNKNOWN"
                        THEN mqtt_command_dispatch(command_queue,
                                                   [n |-> cmd_arrived + 1, cmd |-> cmd])
                        ELSE command_queue} :
             LET n == cmd_arrived + 1
                 topic_is_command == message[1]
             IN  /\ command_queue' = queue
                 /\ cmd_arrived' = n
                 /\ cmd_fate' = Append(cmd_fate,
                        IF ~topic_is_command THEN "ignored"
                        ELSE IF cmd.type = "MQTT_CMD_UNKNOWN" THEN "unknown"
                        ELSE IF \E i \in 1..Len(queue) : queue[i].n = n THEN "queued"
                        ELSE "dropped")
                 /\ cmd_messages' = Append(cmd_messages, message)
    /\ UNCHANGED <<cmd_task, cmd_handled, cmd_status, cutoff_read, collected, device_name,
                   nvs_device>>

\* The arrival of message cmd_arrived + 1.
mqtt_event_handler ==
    /\ cmd_arrived < MaxArrivals
    /\ \E message \in MessagesAt(cmd_arrived + 1) : mqtt_event_data(message)
\* The arrival of one of the messages of OvrMessages.
mqtt_event_handler_next_to_tasks ==
    /\ cmd_arrived < MaxCommands
    /\ \E message \in OvrMessages : mqtt_event_data(message)


\* Variant that takes the newest item.
xQueueReceive_newest(queue) ==
    [item |-> queue[Len(queue)], rest |-> SubSeq(queue, 1, Len(queue) - 1)]

\* xQueueReceive(command_queue, &cmd, portMAX_DELAY) on a queue that holds an
\* item: the item received and the queue left.
xQueueReceive(queue) == [item |-> Head(queue), rest |-> Tail(queue)]

\* The actuator an override command is about, and the state it asks for.
OverrideTarget(cmd) ==
    CASE cmd.type = "MQTT_CMD_PUMP_OVERRIDE" -> [name |-> "pump", on |-> cmd.pump_on]
      [] cmd.type = "MQTT_CMD_FAN_OVERRIDE" -> [name |-> "fan", on |-> cmd.fan_on]
      [] cmd.type = "MQTT_CMD_MISTER_OVERRIDE" -> [name |-> "mister", on |-> cmd.mister_on]
      [] cmd.type = "MQTT_CMD_LIGHT_OVERRIDE" -> [name |-> "light", on |-> cmd.light_on]

\* sensors_set_pump_state, sensors_set_fan_state, sensors_set_mister_state and
\* sensors_set_light_state: the actuator states after the call.
sensors_set_state(act, name, on, cutoff_low) ==
    [act EXCEPT ![name] = IF name = "pump" THEN sensors_set_pump_state(on, cutoff_low) ELSE on]

\* What a write to namespace "device" does: every call succeeds, or nvs_open,
\* the nvs_set call or nvs_commit fails; after a failed commit the value may
\* or may not have reached the flash.
DeviceWriteFaults == {"none", "nvs_open", "nvs_set", "nvs_commit", "nvs_commit_after_write"}
WriteFault(ok) == IF ok THEN "none" ELSE "nvs_open"
StoredAfter(fault, old, new) ==
    IF fault \in {"none", "nvs_commit_after_write"} THEN <<new>> ELSE old

\* Variant that updates the static once the value was set, committed or not.
device_identity_set_name_before_commit(name, fault) ==
    IF name.null
    THEN [rc |-> "ESP_ERR_INVALID_ARG", device_name |-> device_name, stored |-> nvs_device.display_name]
    ELSE IF strlen(name) = 0 \/ strlen(name) >= DEVICE_NAME_MAX_LEN
    THEN [rc |-> "ESP_ERR_INVALID_ARG", device_name |-> device_name, stored |-> nvs_device.display_name]
    ELSE [rc |-> IF fault = "none" THEN "ESP_OK" ELSE "ESP_FAIL",
          device_name |-> IF fault \in {"none", "nvs_commit", "nvs_commit_after_write"}
                          THEN name.chars ELSE device_name,
          stored |-> StoredAfter(fault, nvs_device.display_name, name.chars)]

\* device_identity_set_name(name) and device_identity_set_sensor_mode(mode):
\* the return value, the static and the stored value they leave. The static
\* changes only when set and commit returned ESP_OK.
device_identity_set_name(name, fault) ==
    IF name.null
    THEN [rc |-> "ESP_ERR_INVALID_ARG", device_name |-> device_name, stored |-> nvs_device.display_name]
    ELSE IF strlen(name) = 0 \/ strlen(name) >= DEVICE_NAME_MAX_LEN
    THEN [rc |-> "ESP_ERR_INVALID_ARG", device_name |-> device_name, stored |-> nvs_device.display_name]
    ELSE [rc |-> IF fault = "none" THEN "ESP_OK" ELSE "ESP_FAIL",
          device_name |-> IF fault = "none" THEN name.chars ELSE device_name,
          stored |-> StoredAfter(fault, nvs_device.display_name, name.chars)]
device_identity_set_sensor_mode(mode, fault) ==
    IF mode \notin {"SENSOR_MODE_FULL", "SENSOR_MODE_CONTROL_ONLY"}
    THEN [rc |-> "ESP_ERR_INVALID_ARG", sensor_mode |-> sensor_mode, stored |-> nvs_device.sensor_mode]
    ELSE [rc |-> IF fault = "none" THEN "ESP_OK" ELSE "ESP_FAIL",
          sensor_mode |-> IF fault = "none" THEN mode ELSE sensor_mode,
          stored |-> StoredAfter(fault, nvs_device.sensor_mode, mode)]

\* One iteration of handle_command_task up to its next blocking call: the
\* xQueueReceive of the following iteration, or the vTaskDelay of a timed
\* switch-on.
handle_command_task ==
    /\ cmd_task = <<>>
    /\ command_queue # <<>>
    /\ LET item == xQueueReceive(command_queue).item
           cmd == item.cmd
       IN  /\ command_queue' = xQueueReceive(command_queue).rest
           /\ cmd_handled' = Append(cmd_handled, item.n)
           /\ IF cmd.type \in {"MQTT_CMD_PUMP_OVERRIDE", "MQTT_CMD_FAN_OVERRIDE",
                               "MQTT_CMD_MISTER_OVERRIDE", "MQTT_CMD_LIGHT_OVERRIDE"}
              THEN LET target == OverrideTarget(cmd)
                   IN  /\ \E cutoff_low \in BOOLEAN :
                            /\ actuator_state' = sensors_set_state(actuator_state, target.name,
                                                                   target.on, cutoff_low)
                            /\ cutoff_read' = IF target.name = "pump" /\ target.on
                                                  /\ device_identity_sensors_enabled
                                               THEN <<cutoff_low>> ELSE <<>>
                       /\ cmd_status' = <<IF target.on THEN <<target.name, "on">>
                                                      ELSE <<target.name, "off">>>>
                       /\ cmd_task' = IF target.on /\ cmd.duration_ms > 0 THEN <<item>> ELSE <<>>
                       /\ UNCHANGED <<nvs_schedule, schedule_state, schedule_initialized,
                                      last_applied_minute, sensor_mode, time_valid, last_call,
                                      collected, device_name, nvs_device>>
              ELSE IF cmd.type = "MQTT_CMD_SENSOR_READ"
              THEN /\ \E i2c_ok \in BOOLEAN, cutoff_low \in BOOLEAN :
                        LET r == sensors_collect(actuator_state, i2c_ok, cutoff_low)
                        IN  actuator_state' = r.act
                   /\ cmd_status' = <<<<"reading", "">>>>
                   /\ cmd_task' = <<>>
                   /\ cutoff_read' = <<>>
                   /\ UNCHANGED <<nvs_schedule, schedule_state, schedule_initialized,
                                  last_applied_minute, sensor_mode, time_valid, last_call,
                                  collected, device_name, nvs_device>>
              ELSE IF cmd.type = "MQTT_CMD_CONFIG_UPDATE"
              THEN \E name_ok \in BOOLEAN, mode_ok \in BOOLEAN, failAt \in WriteFailPoints,
                      now_sec \in NowSecs, cutoff_low \in BOOLEAN :
                     LET named == device_identity_set_name(CStr(cmd.device_name), WriteFault(name_ok))
                         moded == device_identity_set_sensor_mode(cmd.sensor_mode, WriteFault(mode_ok))
                         set == node_schedule_set_outcome(cmd.schedule, failAt, now_sec, cutoff_low)
                     IN  /\ device_name' = IF cmd.device_name # <<>> THEN named.device_name
                                           ELSE device_name
                         /\ sensor_mode' = IF cmd.has_sensor_mode THEN moded.sensor_mode
                                           ELSE sensor_mode
                         /\ nvs_device' =
                                [display_name |-> IF cmd.device_name # <<>> THEN named.stored
                                                  ELSE nvs_device.display_name,
                                 sensor_mode |-> IF cmd.has_sensor_mode THEN moded.stored
                                                 ELSE nvs_device.sensor_mode]
                         /\ IF cmd.has_schedule
                            THEN /\ nvs_schedule' = set.nvs_schedule
                                 /\ schedule_state' = set.schedule_state
                                 /\ last_applied_minute' = set.last_applied_minute
                                 /\ actuator_state' = set.actuator_state
                                 /\ last_call' = Call("set", set.rc)
                            ELSE UNCHANGED <<nvs_schedule, schedule_state, last_applied_minute,
                                             actuator_state, last_call>>
                         /\ cmd_status' =
                                (IF cmd.device_name = <<>> THEN <<>>
                                 ELSE IF named.rc = "ESP_OK" THEN <<<<"name", "updated">>>>
                                 ELSE <<<<"name", "update_failed">>>>)
                                \o (IF ~cmd.has_sensor_mode THEN <<>>
                                    ELSE IF moded.rc = "ESP_OK" THEN <<<<"sensor_mode", "updated">>>>
                                    ELSE <<<<"sensor_mode", "update_failed">>>>)
                                \o (IF ~cmd.has_schedule THEN <<>>
                                    ELSE IF set.rc = "ESP_OK" THEN <<<<"schedule", "updated">>>>
                                    ELSE <<<<"schedule", "update_failed">>>>)
                         /\ cmd_task' = <<>>
                         /\ cutoff_read' = <<>>
                         /\ UNCHANGED <<schedule_initialized, time_valid, collected>>
              ELSE /\ cmd_status' = <<>>
                   /\ cmd_task' = <<>>
                   /\ cutoff_read' = <<>>
                   /\ UNCHANGED <<SchedVars, collected, device_name, nvs_device>>
    /\ UNCHANGED <<cmd_arrived, cmd_fate, cmd_messages>>

\* Variant that ends the delay as soon as another command waits, and leaves
\* the switching off to that command.
timed_override_off_cancellable ==
    /\ cmd_task # <<>>
    /\ command_queue # <<>>
    /\ cmd_task' = <<>>
    /\ UNCHANGED <<SchedVars, cmd_status, cutoff_read, collected>>
    /\ UNCHANGED <<command_queue, cmd_arrived, cmd_fate, cmd_messages, cmd_handled,
                   device_name, nvs_device>>

\* vTaskDelay of a timed switch-on returns: the actuator is switched off and
\* the timeout is published.
timed_override_off ==
    /\ cmd_task # <<>>
    /\ LET target == OverrideTarget(cmd_task[1].cmd)
       IN  /\ \E cutoff_low \in BOOLEAN :
                actuator_state' = sensors_set_state(actuator_state, target.name, FALSE, cutoff_low)
           /\ cmd_status' = <<<<target.name, "timeout_off">>>>
    /\ cmd_task' = <<>>
    /\ cutoff_read' = <<>>
    /\ UNCHANGED <<nvs_schedule, schedule_state, schedule_initialized, last_applied_minute,
                   sensor_mode, time_valid, last_call>>
    /\ UNCHANGED <<command_queue, cmd_arrived, cmd_fate, cmd_messages, cmd_handled,
                   collected, device_name, nvs_device>>

\* One iteration of sensor_task up to its xQueueSend: sensors_collect(&reading).
sensor_task_sensors_collect ==
    /\ \E i2c_ok \in BOOLEAN, cutoff_low \in BOOLEAN :
         LET r == sensors_collect(actuator_state, i2c_ok, cutoff_low)
         IN  /\ actuator_state' = r.act
             /\ collected' = <<Collected(i2c_ok, cutoff_low, r.reading)>>
    /\ last_call' = Call("collect", "ESP_OK")
    /\ UNCHANGED <<nvs_schedule, schedule_state, schedule_initialized, last_applied_minute,
                   sensor_mode, time_valid>>
    /\ UNCHANGED <<command_queue, cmd_task, cmd_arrived, cmd_fate, cmd_messages, cmd_handled,
                   cmd_status, cutoff_read, device_name, nvs_device>>

CmdIdle ==
    /\ command_queue = <<>> /\ cmd_task = <<>> /\ cmd_arrived = 0
    /\ cmd_fate = <<>> /\ cmd_messages = <<>> /\ cmd_handled = <<>> /\ cmd_status = <<>>
    /\ cutoff_read = <<>> /\ collected = <<>>
    /\ device_name = <<>>
    /\ nvs_device = [display_name |-> <<>>, sensor_mode |-> <<>>]

(***************************************************************************)
(* The load of node_schedule_init on its own: load_schedule_locked applied *)
(* to one store with one failing read, and the fallback of                 *)
(* node_schedule_init when the load returns an error.                      *)
(***************************************************************************)
LoadIdle == ld_nvs = EmptyStore /\ ld_fail = 0 /\ ld_schedule = <<>>
LoadInit ==
    /\ ld_nvs \in StoreInits
    /\ ld_fail \in 0..Len(SCHEDULE_KEYS)
    /\ ld_schedule = <<>>
LoadAtInit ==
    /\ ld_schedule = <<>>
    /\ ld_schedule' = <<init_schedule_state(ld_nvs, ld_fail)>>
    /\ UNCHANGED <<ld_nvs, ld_fail>>

(***************************************************************************)
(* The setters of device_identity.c on their own, called any number of     *)
(* times with names around the 32-byte bound, a null pointer, the two      *)
(* modes and a value that is neither, under each write fault.              *)
(***************************************************************************)
IdIdle == id_call = <<>>
IdCall(op, name, mode, fault, rc) ==
    [op |-> op, name |-> name, mode |-> mode, fault |-> fault, rc |-> rc]
NameInputs ==
    {NullPtr, CStr(<<>>), CStr(<<112, 111, 116>>), CStr(<<102, 101, 114, 110>>)}
        \cup {CStr([i \in 1..n |-> 97]) : n \in {DEVICE_NAME_MAX_LEN - 1, DEVICE_NAME_MAX_LEN,
                                                DEVICE_NAME_MAX_LEN + 8}}
ModeInputs == {"SENSOR_MODE_FULL", "SENSOR_MODE_CONTROL_ONLY", "(sensor_mode_t)2"}
SetName ==
    /\ \E name \in NameInputs, fault \in DeviceWriteFaults :
         LET r == device_identity_set_name(name, fault)
         IN  /\ device_name' = r.device_name
             /\ nvs_device' = [nvs_device EXCEPT !.display_name = r.stored]
             /\ id_call' = <<IdCall("set_name", name, "", fault, r.rc)>>
    /\ UNCHANGED <<nvs_schedule, schedule_state, schedule_initialized, last_applied_minute,
                   actuator_state, sensor_mode, time_valid, last_call>>
    /\ UNCHANGED <<command_queue, cmd_task, cmd_arrived, cmd_fate, cmd_messages, cmd_handled,
                   cmd_status, cutoff_read, collected>>
SetSensorMode ==
    /\ \E mode \in ModeInputs, fault \in DeviceWriteFaults :
         LET r == device_identity_set_sensor_mode(mode, fault)
         IN  /\ sensor_mode' = r.sensor_mode
             /\ nvs_device' = [nvs_device EXCEPT !.sensor_mode = r.stored]
             /\ id_call' = <<IdCall("set_sensor_mode", NullPtr, mode, fault, r.rc)>>
    /\ UNCHANGED <<nvs_schedule, schedule_state, schedule_initialized, last_applied_minute,
                   actuator_state, time_valid, last_call>>
    /\ UNCHANGED <<command_queue, cmd_task, cmd_arrived, cmd_fate, cmd_messages, cmd_handled,
                   cmd_status, cutoff_read, collected, device_name>>

(***************************************************************************)
(* The measurement path: sensor_task samples and stores the reading in     *)
(* measurement_queue, mqtt_task receives and publishes it.  The two tasks  *)
(* interleave between their queue calls.  A reading is named by the number *)
(* of the sample that produced it.                                         *)
(***************************************************************************)
MEASUREMENT_QUEUE_LENGTH == 1
MaxSamples == 6

\* Variant that leaves a full queue as it is.
xQueueOverwrite_keep_old(queue, item) == IF queue = <<>> THEN <<item>> ELSE queue

\* xQueueOverwrite on a queue of length 1: the queue after the call.
xQueueOverwrite(queue, item) == <<item>>

MeasIdle ==
    /\ measurement_queue = <<>> /\ sensor_pc = "collect" /\ sensor_reading = 0
    /\ sample_count = 0 /\ published = <<>>

\* sensor_task: sensors_collect(&reading), after the delay of the iteration
\* before.
sensor_task_collect ==
    /\ sensor_pc = "collect"
    /\ sample_count < MaxSamples
    /\ sample_count' = sample_count + 1
    /\ sensor_reading' = sample_count + 1
    /\ sensor_pc' = "send"
    /\ UNCHANGED <<measurement_queue, published>>

\* sensor_task: xQueueSend(measurement_queue, &reading, 0).
sensor_task_send ==
    /\ sensor_pc = "send"
    /\ IF Len(measurement_queue) < MEASUREMENT_QUEUE_LENGTH
       THEN /\ measurement_queue' = Append(measurement_queue, sensor_reading)
            /\ sensor_pc' = "collect"
       ELSE /\ measurement_queue' = measurement_queue
            /\ sensor_pc' = "overwrite"
    /\ UNCHANGED <<sensor_reading, sample_count, published>>

\* sensor_task: xQueueOverwrite(measurement_queue, &reading) after a send
\* that found the queue full.
sensor_task_overwrite ==
    /\ sensor_pc = "overwrite"
    /\ measurement_queue' = xQueueOverwrite(measurement_queue, sensor_reading)
    /\ sensor_pc' = "collect"
    /\ UNCHANGED <<sensor_reading, sample_count, published>>

\* mqtt_task: xQueueReceive(measurement_queue, &reading, portMAX_DELAY)
\* returns and the reading is published.
mqtt_task ==
    /\ measurement_queue # <<>>
    /\ published' = Append(published, Head(measurement_queue))
    /\ measurement_queue' = Tail(measurement_queue)
    /\ UNCHANGED <<sensor_pc, sensor_reading, sample_count>>

(***************************************************************************)
(* app_main from the return of startup_onboarding_run to its end.          *)
(***************************************************************************)
AppIdle == time_sync_state = "none" /\ tasks_started = {}
StartedByAppMain ==
    {"mqtt_client", "sensor_task", "mqtt_task", "command_task", "ping_task", "schedule_task"}

\* Variant that goes on only when the run returned ESP_OK.
app_main_after_onboarding_if_connected ==
    /\ onb_pc = "done" /\ tasks_started = {}
    /\ onb_rc = "ESP_OK"
    /\ time_sync_state' \in {"init_failed", "timed_out", "synced"}
    /\ tasks_started' = StartedByAppMain

\* wifi_result != ESP_OK: the failure is logged and app_main waits 5 s; else
\* time_sync_init and time_sync_wait_for_valid run.  Either way the queues
\* are created, mqtt_client_start is called and the five tasks are created.
app_main_after_onboarding ==
    /\ onb_pc = "done" /\ tasks_started = {}
    /\ IF onb_rc # "ESP_OK"
       THEN time_sync_state' = "skipped"
       ELSE time_sync_state' \in {"init_failed", "timed_out", "synced"}
    /\ tasks_started' = StartedByAppMain


(***************************************************************************)
(* preferences.c: the typed gets, each called once on the key "complete"   *)
(* of one namespace.  The namespace exists once any key was written to it. *)
(* A number stands for a float value; a blob is its length and its value.  *)
(***************************************************************************)
\* A variant of prefs_get_u32 that hands nvs_get_u32's not-found result to the caller.
prefs_get_u32_reports_missing(nvs, key, default_value, fault) ==
    IF fault = "read" THEN [err |-> "ESP_FAIL", value |-> default_value]
    ELSE IF ~NamespaceExists(nvs) \/ nvs[key] = <<>>
         THEN [err |-> "ESP_ERR_NVS_NOT_FOUND", value |-> default_value]
    ELSE [err |-> "ESP_OK", value |-> nvs[key][1]]

\* prefs_get_u32 and prefs_get_i32 have the body of prefs_get_u8 with
\* nvs_get_u32 / nvs_get_i32 in place of nvs_get_u8.
prefs_get_u32(nvs, key, default_value, fault) ==
    IF fault = "read" THEN [err |-> "ESP_FAIL", value |-> default_value]
    ELSE IF ~NamespaceExists(nvs) THEN [err |-> "ESP_ERR_NVS_NOT_FOUND", value |-> default_value]
    ELSE IF nvs[key] = <<>> THEN [err |-> "ESP_OK", value |-> default_value]
    ELSE [err |-> "ESP_OK", value |-> nvs[key][1]]

prefs_get_i32(nvs, key, default_value, fault) ==
    IF fault = "read" THEN [err |-> "ESP_FAIL", value |-> default_value]
    ELSE IF ~NamespaceExists(nvs) THEN [err |-> "ESP_ERR_NVS_NOT_FOUND", value |-> default_value]
    ELSE IF nvs[key] = <<>> THEN [err |-> "ESP_OK", value |-> default_value]
    ELSE [err |-> "ESP_OK", value |-> nvs[key][1]]

\* prefs_get_blob returns what nvs_open or nvs_get_blob returned, unchanged: a
\* namespace or a key that is not there is ESP_ERR_NVS_NOT_FOUND, a stored blob
\* longer than the buffer is ESP_ERR_NVS_INVALID_LENGTH.  len is
\* *in_out_value_len before and after the call, value the buffer after it
\* (<<>>: not written).
prefs_get_blob(nvs, key, in_len, fault) ==
    IF fault = "read" THEN [err |-> "ESP_FAIL", value |-> <<>>, len |-> in_len]
    ELSE IF ~NamespaceExists(nvs) \/ nvs[key] = <<>>
         THEN [err |-> "ESP_ERR_NVS_NOT_FOUND", value |-> <<>>, len |-> in_len]
    ELSE LET blob == nvs[key][1] IN
         IF blob.len > in_len
         THEN [err |-> "ESP_ERR_NVS_INVALID_LENGTH", value |-> <<>>, len |-> in_len]
         ELSE [err |-> "ESP_OK", value |-> <<blob.v>>, len |-> blob.len]

SIZEOF_FLOAT == 4

\* prefs_get_float reads the blob into a float: not-found (of the key or of the
\* namespace) becomes ESP_OK with the default, another error is returned, a
\* blob of another size is ESP_ERR_INVALID_SIZE.
prefs_get_float(nvs, key, default_value, fault) ==
    LET r == prefs_get_blob(nvs, key, SIZEOF_FLOAT, fault) IN
    IF r.err = "ESP_ERR_NVS_NOT_FOUND" THEN [err |-> "ESP_OK", value |-> default_value]
    ELSE IF r.err # "ESP_OK" THEN [err |-> r.err, value |-> default_value]
    ELSE IF r.len # SIZEOF_FLOAT THEN [err |-> "ESP_ERR_INVALID_SIZE", value |-> default_value]
    ELSE [err |-> "ESP_OK", value |-> r.value[1]]

PrefTypes == {"u8", "u32", "i32", "bool", "float", "str", "blob"}
NumberTypes == {"u8", "u32", "i32", "bool"}

\* What the store can hold under the key, and the types that read it.
PrefStored ==
    {[kind |-> "number", num |-> n, str |-> "", len |-> 0] : n \in {0, 1, 7, 200}}
        \cup {[kind |-> "str", num |-> 0, str |-> s, len |-> 0] : s \in {"", "dflt", "other"}}
        \cup {[kind |-> "blob", num |-> x, str |-> "", len |-> l] : l \in {2, 4, 8}, x \in {0, 7}}
RawOf(item) ==
    IF item.kind = "number" THEN item.num
    ELSE IF item.kind = "str" THEN item.str
    ELSE [len |-> item.len, v |-> item.num]
KindOf(type) ==
    IF type \in NumberTypes THEN "number" ELSE IF type = "str" THEN "str" ELSE "blob"
PrefDefaults(type) ==
    IF type = "bool" THEN {FALSE, TRUE}
    ELSE IF type = "str" THEN {"", "dflt"}
    ELSE IF type = "blob" THEN {<<>>}
    ELSE {0, 7}

\* The namespace with nothing in it, with another key only, or with the key.
PrefStore(other, item) ==
    [k \in OnbKeys |-> IF k = "complete" THEN item
                       ELSE IF k = "hub_url" /\ other THEN <<"http://hub">> ELSE <<>>]
PrefKind(nvs) == IF nvs["complete"] = <<>> THEN "none" ELSE nvs["complete"][1].kind
\* The store as the get of one kind sees it: the raw value under the key.
RawStore(nvs) ==
    [k \in OnbKeys |-> IF k = "complete" /\ nvs[k] # <<>> THEN <<RawOf(nvs[k][1])>> ELSE nvs[k]]

\* The (err, value) the caller has after the get of the given type.
prefs_get(type, nvs, default_value, fault) ==
    LET s == RawStore(nvs) IN
    IF type = "u8" THEN prefs_get_u8(s, "complete", default_value, fault)
    ELSE IF type = "u32" THEN prefs_get_u32(s, "complete", default_value, fault)
    ELSE IF type = "i32" THEN prefs_get_i32(s, "complete", default_value, fault)
    ELSE IF type = "bool" THEN prefs_get_bool(s, "complete", default_value, fault)
    ELSE IF type = "float" THEN prefs_get_float(s, "complete", default_value, fault)
    ELSE IF type = "str" THEN prefs_get_str(s, "complete", default_value, fault)
    ELSE LET r == prefs_get_blob(s, "complete", SIZEOF_FLOAT, fault)
         IN [err |-> r.err, value |-> r.value]

\* A value of any of the types, held in the field of its type.
Typed(type, v) ==
    [num |-> IF type \in {"u8", "u32", "i32", "float"} THEN v ELSE 0,
     flag |-> IF type = "bool" THEN v ELSE FALSE,
     str |-> IF type = "str" THEN v ELSE "",
     buf |-> IF type = "blob" THEN v ELSE <<>>]
Untyped(type, t) ==
    IF type \in {"u8", "u32", "i32", "float"} THEN t.num
    ELSE IF type = "bool" THEN t.flag
    ELSE IF type = "str" THEN t.str
    ELSE t.buf

PrefIdle == pg_nvs = PrefStore(FALSE, <<>>) /\ pg_call = <<>>
PrefInit ==
    /\ pg_nvs \in {PrefStore(other, <<>>) : other \in BOOLEAN}
                    \cup {PrefStore(FALSE, <<i>>) : i \in PrefStored}
    /\ pg_call = <<>>
PrefsGet ==
    /\ pg_call = <<>>
    /\ \E type \in PrefTypes, fault \in {"none", "read"} :
         /\ PrefKind(pg_nvs) \in {"none", KindOf(type)}
         /\ \E default_value \in PrefDefaults(type) :
              LET r == prefs_get(type, pg_nvs, default_value, fault)
              IN pg_call' = <<[type |-> type, default |-> Typed(type, default_value),
                               fault |-> fault,
                               err |-> r.err, value |-> Typed(type, r.value)]>>
    /\ UNCHANGED pg_nvs


(***************************************************************************)
(* node_schedule.c with its two callers interleaved: the dispatch task     *)
(* (handle_command_task) inside node_schedule_set or node_schedule_get,    *)
(* and node_schedule_task.  A step is what a task does between two points  *)
(* at which the other can run: a take of schedule_lock, the section under  *)
(* the lock up to the give, the unlocked rest.  A take that finds the lock *)
(* free acquires it; a take made while the other task holds the lock for   *)
(* the whole wait times out.  A task that waits and then gets the lock is  *)
(* the run in which its take happens after the give.                       *)
(***************************************************************************)
MaxCalls == 2
MaxTicks == 2
RaceSchedules == {BaseSchedule, MkSchedule(TimerD, TimerD, TimerC, TimerA, 0)}
\* tv_sec at 01:30, 01:31 and 01:32 UTC.
RaceClock == <<MIN_VALID_EPOCH + 60 * 90, MIN_VALID_EPOCH + 60 * 91, MIN_VALID_EPOCH + 60 * 92>>

Returned(n, op, rc, out) == [n |-> n, op |-> op, rc |-> rc, out |-> out]
Iteration(n, how, minute, wrote, stale) ==
    [n |-> n, how |-> how, minute |-> minute, wrote |-> wrote, stale |-> stale]
DispAt(pc, schedule, failAt, snapshot, gen, calls) ==
    [pc |-> pc, schedule |-> schedule, failAt |-> failAt, snapshot |-> snapshot,
     gen |-> gen, calls |-> calls]
TaskAt(pc, snapshot, minute, gen, ticks) ==
    [pc |-> pc, snapshot |-> snapshot, minute |-> minute, gen |-> gen, ticks |-> ticks]

LockIdle ==
    /\ schedule_lock = "free"
    /\ disp = DispAt("idle", ZeroSchedule, 0, ZeroSchedule, 0, 0)
    /\ rtask = TaskAt("take", ZeroSchedule, 0, 0, 0)
    /\ rc_clock = 1
    /\ rc_hist = [gen |-> 0, returned |-> 0,
                  ret |-> Returned(0, "none", "ESP_OK", ZeroSchedule),
                  tick |-> Iteration(0, "none", -1, {}, FALSE)]

\* xSemaphoreTake(schedule_lock, timeout) by the task who: pdTRUE with the lock
\* taken when it is free, pdFALSE when the other task holds it.
xSemaphoreTake(who) ==
    IF schedule_lock = "free" THEN [ok |-> TRUE, lock |-> who]
    ELSE [ok |-> FALSE, lock |-> schedule_lock]

DispReturns(op, rc, out) ==
    /\ disp' = [disp EXCEPT !.pc = "idle"]
    /\ rc_hist' = [rc_hist EXCEPT !.ret = Returned(disp.calls, op, rc, out),
                                  !.returned = IF op = "set" /\ rc = "ESP_OK"
                                               THEN disp.gen ELSE @]

\* node_schedule_set up to its take: the checks pass (the engine is
\* initialised, the schedules are valid), then the lock is taken or the call
\* returns ESP_ERR_TIMEOUT.
node_schedule_set_take ==
    /\ disp.pc = "idle" /\ disp.calls < MaxCalls
    /\ schedule_initialized
    /\ \E schedule \in RaceSchedules, failAt \in WriteFailPoints :
         LET t == xSemaphoreTake("dispatch") IN
         /\ schedule_lock' = t.lock
         /\ IF t.ok
            THEN /\ disp' = [disp EXCEPT !.pc = "set_locked", !.schedule = schedule,
                                         !.failAt = failAt, !.calls = @ + 1]
                 /\ UNCHANGED rc_hist
            ELSE /\ disp' = [disp EXCEPT !.calls = @ + 1]
                 /\ rc_hist' = [rc_hist EXCEPT
                                  !.ret = Returned(disp.calls + 1, "set", "ESP_ERR_TIMEOUT",
                                                   ZeroSchedule)]
    /\ UNCHANGED <<SchedVars, rtask, rc_clock>>

\* A variant that returns the error of the save with the lock still held.
node_schedule_set_locked_keeps_lock ==
    /\ disp.pc = "set_locked"
    /\ LET saved == save_schedule_locked(nvs_schedule, disp.schedule, disp.failAt) IN
       /\ schedule_state' = disp.schedule
       /\ nvs_schedule' = saved.nvs
       /\ schedule_lock' = IF saved.err # "ESP_OK" THEN schedule_lock ELSE "free"
       /\ IF saved.err # "ESP_OK"
          THEN /\ disp' = [disp EXCEPT !.pc = "idle", !.gen = rc_hist.gen + 1]
               /\ rc_hist' = [rc_hist EXCEPT !.gen = @ + 1,
                                !.ret = Returned(disp.calls, "set", saved.err, ZeroSchedule)]
          ELSE /\ disp' = [disp EXCEPT !.pc = "apply_take", !.gen = rc_hist.gen + 1]
               /\ rc_hist' = [rc_hist EXCEPT !.gen = @ + 1]
    /\ UNCHANGED <<schedule_initialized, last_applied_minute, actuator_state, sensor_mode,
                   time_valid, last_call, rtask, rc_clock>>

\* node_schedule_set under the lock: schedule_state = *schedule, the save, the
\* give; an error of the save is returned, otherwise apply_now_if_possible is next.
node_schedule_set_locked ==
    /\ disp.pc = "set_locked"
    /\ LET saved == save_schedule_locked(nvs_schedule, disp.schedule, disp.failAt) IN
       /\ schedule_state' = disp.schedule
       /\ nvs_schedule' = saved.nvs
       /\ schedule_lock' = "free"
       /\ IF saved.err # "ESP_OK"
          THEN /\ disp' = [disp EXCEPT !.pc = "idle", !.gen = rc_hist.gen + 1]
               /\ rc_hist' = [rc_hist EXCEPT !.gen = @ + 1,
                                !.ret = Returned(disp.calls, "set", saved.err, ZeroSchedule)]
          ELSE /\ disp' = [disp EXCEPT !.pc = "apply_take", !.gen = rc_hist.gen + 1]
               /\ rc_hist' = [rc_hist EXCEPT !.gen = @ + 1]
    /\ UNCHANGED <<schedule_initialized, last_applied_minute, actuator_state, sensor_mode,
                   time_valid, last_call, rtask, rc_clock>>

\* apply_now_if_possible as node_schedule_set calls it: the take; on a timeout
\* it returns and node_schedule_set returns ESP_OK.
apply_now_take ==
    /\ disp.pc = "apply_take"
    /\ LET t == xSemaphoreTake("dispatch") IN
       /\ schedule_lock' = t.lock
       /\ IF t.ok
          THEN disp' = [disp EXCEPT !.pc = "apply_snapshot"] /\ UNCHANGED rc_hist
          ELSE DispReturns("set", "ESP_OK", ZeroSchedule)
    /\ UNCHANGED <<SchedVars, rtask, rc_clock>>

\* snapshot = schedule_state; xSemaphoreGive(schedule_lock)
apply_now_snapshot ==
    /\ disp.pc = "apply_snapshot"
    /\ disp' = [disp EXCEPT !.pc = "apply_apply", !.snapshot = schedule_state]
    /\ schedule_lock' = "free"
    /\ UNCHANGED <<SchedVars, rtask, rc_clock, rc_hist>>

\* The unlocked rest of apply_now_if_possible: without a valid clock it
\* returns; otherwise apply_schedule_state(&snapshot, minute_of_day) and
\* last_applied_minute = minute_of_day.  node_schedule_set then returns ESP_OK.
apply_now_apply ==
    /\ disp.pc = "apply_apply"
    /\ \E cutoff_low \in BOOLEAN :
         LET a == apply_now_if_possible(actuator_state, disp.snapshot, last_applied_minute,
                                        RaceClock[rc_clock], cutoff_low)
         IN /\ actuator_state' = a.act
            /\ last_applied_minute' = a.minute
    /\ DispReturns("set", "ESP_OK", ZeroSchedule)
    /\ UNCHANGED <<nvs_schedule, schedule_state, schedule_initialized, sensor_mode, time_valid,
                   last_call, schedule_lock, rtask, rc_clock>>

\* node_schedule_get up to its take: on a timeout *out_schedule gets the defaults.
node_schedule_get_take ==
    /\ disp.pc = "idle" /\ disp.calls < MaxCalls
    /\ schedule_initialized
    /\ LET t == xSemaphoreTake("dispatch") IN
       /\ schedule_lock' = t.lock
       /\ IF t.ok
          THEN /\ disp' = [disp EXCEPT !.pc = "get_copy", !.calls = @ + 1]
               /\ UNCHANGED rc_hist
          ELSE /\ disp' = [disp EXCEPT !.calls = @ + 1]
               /\ rc_hist' = [rc_hist EXCEPT
                                !.ret = Returned(disp.calls + 1, "get", "ESP_ERR_TIMEOUT",
                                                 node_schedule_defaults)]
    /\ UNCHANGED <<SchedVars, rtask, rc_clock>>

\* *out_schedule = schedule_state; xSemaphoreGive(schedule_lock)
node_schedule_get_copy ==
    /\ disp.pc = "get_copy"
    /\ schedule_lock' = "free"
    /\ DispReturns("get", "ESP_OK", schedule_state)
    /\ UNCHANGED <<SchedVars, rtask, rc_clock>>

\* node_schedule_task at the top of an iteration: the take; on a timeout the
\* iteration ends in vTaskDelay.
node_schedule_task_take ==
    /\ rtask.pc = "take" /\ rtask.ticks < MaxTicks
    /\ schedule_initialized
    /\ LET t == xSemaphoreTake("task") IN
       /\ schedule_lock' = t.lock
       /\ IF t.ok
          THEN /\ rtask' = [rtask EXCEPT !.pc = "snapshot", !.ticks = @ + 1]
               /\ UNCHANGED rc_hist
          ELSE /\ rtask' = [rtask EXCEPT !.ticks = @ + 1]
               /\ rc_hist' = [rc_hist EXCEPT
                                !.tick = Iteration(rtask.ticks + 1, "skipped", -1, {}, FALSE)]
    /\ UNCHANGED <<SchedVars, disp, rc_clock>>

\* snapshot = schedule_state; xSemaphoreGive(schedule_lock)
node_schedule_task_snapshot ==
    /\ rtask.pc = "snapshot"
    /\ rtask' = [rtask EXCEPT !.pc = "clock", !.snapshot = schedule_state, !.gen = rc_hist.gen]
    /\ schedule_lock' = "free"
    /\ UNCHANGED <<SchedVars, disp, rc_clock, rc_hist>>

\* current_minute_of_day and the comparison with last_applied_minute.
node_schedule_task_clock ==
    /\ rtask.pc = "clock"
    /\ IF ~time_valid
       THEN /\ rtask' = [rtask EXCEPT !.pc = "take"]
            /\ rc_hist' = [rc_hist EXCEPT
                             !.tick = Iteration(rtask.ticks, "no_clock", -1, {}, FALSE)]
       ELSE LET minute_of_day ==
                    current_minute_of_day(rtask.snapshot.timezone_offset_minutes,
                                          RaceClock[rc_clock])
            IN IF minute_of_day # last_applied_minute
               THEN /\ rtask' = [rtask EXCEPT !.pc = "apply", !.minute = minute_of_day]
                    /\ UNCHANGED rc_hist
               ELSE /\ rtask' = [rtask EXCEPT !.pc = "take"]
                    /\ rc_hist' = [rc_hist EXCEPT
                                     !.tick = Iteration(rtask.ticks, "same_minute",
                                                        minute_of_day, {}, FALSE)]
    /\ UNCHANGED <<SchedVars, schedule_lock, disp, rc_clock>>

\* apply_schedule_state(&snapshot, minute_of_day); last_applied_minute =
\* minute_of_day; vTaskDelay.  The iteration is stale when a Set that mutated
\* schedule_state after the snapshot has returned ESP_OK before this write.
node_schedule_task_apply ==
    /\ rtask.pc = "apply"
    /\ \E cutoff_low \in BOOLEAN :
         LET applied == apply_schedule_state(actuator_state, rtask.snapshot, rtask.minute,
                                             cutoff_low)
         IN /\ actuator_state' = applied.act
            /\ rc_hist' = [rc_hist EXCEPT
                             !.tick = Iteration(rtask.ticks, "applied", rtask.minute,
                                                applied.wrote, rtask.gen < rc_hist.returned)]
    /\ last_applied_minute' = rtask.minute
    /\ rtask' = [rtask EXCEPT !.pc = "take"]
    /\ UNCHANGED <<nvs_schedule, schedule_state, schedule_initialized, sensor_mode, time_valid,
                   last_call, schedule_lock, disp, rc_clock>>

\* The wall clock reaches the next minute.
MinutePasses ==
    /\ rc_clock < Len(RaceClock)
    /\ rc_clock' = rc_clock + 1
    /\ UNCHANGED <<SchedVars, schedule_lock, disp, rtask, rc_hist>>

\* After node_schedule_init loaded BaseSchedule with the clock not yet valid;
\* the clock may have become valid since.
RaceInit ==
    /\ nvs_schedule = SavedBase
    /\ schedule_state = BaseSchedule
    /\ schedule_initialized = TRUE
    /\ last_applied_minute = -1
    /\ actuator_state = [t \in TimerNames |-> FALSE]
    /\ sensor_mode = "SENSOR_MODE_FULL"
    /\ time_valid \in BOOLEAN
    /\ last_call = Call("init", "ESP_OK")
    /\ LockIdle

(***************************************************************************)
(* The telemetry ring buffer of src/esp32/fw/main/storage.c.  The file     *)
(* holds a header and capacity entry slots; s_header is the copy in        *)
(* memory.  Every function takes s_lock for its whole body, so each call   *)
(* is one step.  A write of the header reaches the file whole or not at    *)
(* all.  The capacity of the build is scaled down to RingCapacity.         *)
(***************************************************************************)
RingCapacity == 3
StorageSamples == {1, 2}
storage_get_capacity_config == RingCapacity

Header(capacity, head, tail, count) ==
    [capacity |-> capacity, head |-> head, tail |-> tail, count |-> count]
ZeroHeader == Header(0, 0, 0, 0)
StorageCall(op, rc, sample, header) == [op |-> op, rc |-> rc, sample |-> sample, before |-> header]

\* storage_sync_header_locked: the header of the file after the call.
storage_sync_header_locked(header, file, write_ok) == IF write_ok THEN <<header>> ELSE file

\* storage_reset_locked: the header it leaves in memory and in the file.
storage_reset_locked(file, write_ok) ==
    LET header == Header(storage_get_capacity_config, 0, 0, 0)
    IN  [err |-> IF write_ok THEN "ESP_OK" ELSE "ESP_FAIL",
         s_header |-> header,
         file_header |-> IF write_ok THEN <<header>> ELSE file]

\* storage_init, called after a restart (the statics are back at zero) or
\* once more in the same run.  The mount or the fopen may fail; the header
\* read from the file is reset when there is none or its capacity differs.
storage_init ==
    \E reboot \in BOOLEAN, fault \in {"none", "mount", "fopen", "reset_write"} :
        LET file0 == IF reboot THEN FALSE ELSE s_file
            header0 == IF reboot THEN ZeroHeader ELSE s_header
            ready0 == IF reboot THEN FALSE ELSE s_ready
            reset == storage_reset_locked(file_header, fault # "reset_write")
            Leaves(rc, file, header, ready) ==
                /\ s_file' = file /\ s_header' = header /\ s_ready' = ready
                /\ rs_call' = StorageCall("init", rc, 0, s_header)
        IN  /\ IF fault = "mount" THEN Leaves("ESP_FAIL", file0, header0, ready0) /\ UNCHANGED file_header
               ELSE IF file0 THEN Leaves("ESP_OK", file0, header0, TRUE) /\ UNCHANGED file_header
               ELSE IF fault = "fopen" THEN Leaves("ESP_FAIL", FALSE, header0, ready0) /\ UNCHANGED file_header
               ELSE IF file_header = <<>> \/ file_header[1].capacity # storage_get_capacity_config
               THEN /\ Leaves(reset.err, TRUE, reset.s_header, reset.err = "ESP_OK")
                    /\ file_header' = reset.file_header
               ELSE Leaves("ESP_OK", TRUE, file_header[1], TRUE) /\ UNCHANGED file_header
            /\ UNCHANGED file_entries

\* Variant that leaves the tail where it is when the buffer is full.
storage_append_sample_keeps_tail ==
    \E sample \in StorageSamples, fault \in {"none", "entry_write", "header_write"} :
        LET capacity == s_header.capacity
            index == s_header.head
            header == [s_header EXCEPT
                          !.count = IF s_header.count = capacity THEN @ ELSE @ + 1,
                          !.head = (s_header.head + 1) % capacity]
        IN  IF ~s_ready
            THEN /\ rs_call' = StorageCall("append", "ESP_ERR_INVALID_STATE", sample, s_header)
                 /\ UNCHANGED <<s_header, s_ready, s_file, file_header, file_entries>>
            ELSE IF capacity = 0 \/ fault = "entry_write"
            THEN /\ rs_call' = StorageCall("append", "ESP_FAIL", sample, s_header)
                 /\ UNCHANGED <<s_header, s_ready, s_file, file_header, file_entries>>
            ELSE /\ file_entries' = [file_entries EXCEPT ![index] = sample]
                 /\ s_header' = header
                 /\ file_header' = storage_sync_header_locked(header, file_header, fault = "none")
                 /\ rs_call' = StorageCall("append", IF fault = "none" THEN "ESP_OK" ELSE "ESP_FAIL",
                                           sample, s_header)
                 /\ UNCHANGED <<s_ready, s_file>>

\* esp_err_t storage_append_sample(const telemetry_sample_t *sample), sample
\* not NULL: the fseek or fwrite of the entry may fail, and the write of the
\* header may fail.
storage_append_sample ==
    \E sample \in StorageSamples, fault \in {"none", "entry_write", "header_write"} :
        LET capacity == s_header.capacity
            index == s_header.head
            header == [s_header EXCEPT
                          !.tail = IF s_header.count = capacity THEN (@ + 1) % capacity ELSE @,
                          !.count = IF s_header.count = capacity THEN @ ELSE @ + 1,
                          !.head = (s_header.head + 1) % capacity]
        IN  IF ~s_ready
            THEN /\ rs_call' = StorageCall("append", "ESP_ERR_INVALID_STATE", sample, s_header)
                 /\ UNCHANGED <<s_header, s_ready, s_file, file_header, file_entries>>
            ELSE IF capacity = 0 \/ fault = "entry_write"
            THEN /\ rs_call' = StorageCall("append", "ESP_FAIL", sample, s_header)
                 /\ UNCHANGED <<s_header, s_ready, s_file, file_header, file_entries>>
            ELSE /\ file_entries' = [file_entries EXCEPT ![index] = sample]
                 /\ s_header' = header
                 /\ file_header' = storage_sync_header_locked(header, file_header, fault = "none")
                 /\ rs_call' = StorageCall("append", IF fault = "none" THEN "ESP_OK" ELSE "ESP_FAIL",
                                           sample, s_header)
                 /\ UNCHANGED <<s_ready, s_file>>

\* esp_err_t storage_drop_oldest(void)
storage_drop_oldest ==
    \E write_ok \in BOOLEAN :
        IF ~s_ready
        THEN /\ rs_call' = StorageCall("drop", "ESP_ERR_INVALID_STATE", 0, s_header)
             /\ UNCHANGED <<s_header, s_ready, s_file, file_header, file_entries>>
        ELSE IF s_header.count = 0
        THEN /\ rs_call' = StorageCall("drop", "ESP_ERR_INVALID_SIZE", 0, s_header)
             /\ UNCHANGED <<s_header, s_ready, s_file, file_header, file_entries>>
        ELSE LET header == [s_header EXCEPT
                               !.tail = (@ + 1) % s_header.capacity,
                               !.count = IF @ > 0 THEN @ - 1 ELSE @]
             IN  /\ s_header' = header
                 /\ file_header' = storage_sync_header_locked(header, file_header, write_ok)
                 /\ rs_call' = StorageCall("drop", IF write_ok THEN "ESP_OK" ELSE "ESP_FAIL",
                                           0, s_header)
                 /\ UNCHANGED <<s_ready, s_file, file_entries>>

\* The component at rest: nothing of storage.c has run.
RingIdle ==
    /\ s_header = ZeroHeader /\ s_ready = FALSE /\ s_file = FALSE
    /\ file_header = <<>>
    /\ file_entries = [i \in 0..(RingCapacity - 1) |-> 0]
    /\ rs_call = StorageCall("none", "ESP_OK", 0, ZeroHeader)

ExtIdle == PrefIdle /\ LockIdle /\ RingIdle
AuxIdle == LoadIdle /\ IdIdle /\ MeasIdle /\ AppIdle /\ ExtIdle
MqttIdle == HhmmIdle /\ ParseIdle /\ CmdIdle /\ AuxIdle

(***************************************************************************)
(* Specifications                                                          *)
(***************************************************************************)
Init == SchedInit /\ ApplyIdle /\ TimerIdle /\ OnbIdle /\ MqttIdle
Next ==
    \/ node_schedule_init /\ UNCHANGED <<ApplyVars, TimerVars, OnbVars, MqttVars>>
    \/ node_schedule_set /\ UNCHANGED <<ApplyVars, TimerVars, OnbVars, MqttVars>>
    \/ node_schedule_task /\ UNCHANGED <<ApplyVars, TimerVars, OnbVars, MqttVars>>
    \/ TimeSynced /\ UNCHANGED <<ApplyVars, TimerVars, OnbVars, MqttVars>>
    \/ Reboot /\ UNCHANGED <<ApplyVars, TimerVars, OnbVars, MqttVars>>
Spec == Init /\ [][Next]_vars

\* Two applications in a row, in either sensor mode.
ApplySpecInit ==
    /\ ApplyInit
    /\ TimerIdle
    /\ OnbIdle
    /\ MqttIdle
    /\ nvs_schedule = EmptyStore
    /\ schedule_state = ZeroSchedule
    /\ schedule_initialized = FALSE
    /\ last_applied_minute = -1
    /\ actuator_state = [t \in TimerNames |-> FALSE]
    /\ sensor_mode \in {"SENSOR_MODE_FULL", "SENSOR_MODE_CONTROL_ONLY"}
    /\ time_valid = FALSE
    /\ last_call = Call("reboot", "ESP_OK")
ApplySpecNext ==
    \/ ApplyFirst /\ UNCHANGED <<SchedVars, TimerVars, OnbVars, MqttVars>>
    \/ ApplySecond /\ UNCHANGED <<SchedVars, TimerVars, OnbVars, MqttVars>>
ApplySpec == ApplySpecInit /\ [][ApplySpecNext]_vars

TimerSpecInit == TimerInit /\ SchedIdle /\ ApplyIdle /\ OnbIdle /\ MqttIdle
TimerSpecNext == EvalTimer /\ UNCHANGED <<SchedVars, ApplyVars, OnbVars, MqttVars>>
TimerSpec == TimerSpecInit /\ [][TimerSpecNext]_vars

\* Onboarding with the event loop, the hub endpoint and restarts as its
\* environment.  The run is a task of its own: a step of it that stays enabled
\* is taken (a wait with a timeout returns, a wait whose bit is set returns).
OnbSpecInit == OnbInit /\ SchedIdle /\ ApplyIdle /\ TimerIdle /\ MqttIdle
OnbTask ==
    \/ startup_onboarding_run
    \/ FallbackWaitEnd
    \/ ProvisioningWaitStep
    \/ SavedWaitEnd
    \/ ReconnectFallbackWaitEnd
OnbSpecNext ==
    \/ startup_onboarding_run /\ UNCHANGED <<SchedVars, ApplyVars, TimerVars, MqttVars>>
    \/ FallbackWaitEnd /\ UNCHANGED <<SchedVars, ApplyVars, TimerVars, MqttVars>>
    \/ ProvisioningWaitStep /\ UNCHANGED <<SchedVars, ApplyVars, TimerVars, MqttVars>>
    \/ SavedWaitEnd /\ UNCHANGED <<SchedVars, ApplyVars, TimerVars, MqttVars>>
    \/ ReconnectFallbackWaitEnd /\ UNCHANGED <<SchedVars, ApplyVars, TimerVars, MqttVars>>
    \/ WifiEvent /\ UNCHANGED <<SchedVars, ApplyVars, TimerVars, MqttVars>>
    \/ HubPayload /\ UNCHANGED <<SchedVars, ApplyVars, TimerVars, MqttVars>>
    \/ OnbReboot /\ time_sync_state' = "none" /\ tasks_started' = {}
         /\ UNCHANGED <<SchedVars, ApplyVars, TimerVars, HhmmVars, ParseVars, CmdVars,
                        LoadVars, IdVars, MeasVars, ExtVars>>
    \/ app_main_after_onboarding
         /\ UNCHANGED <<SchedVars, ApplyVars, TimerVars, OnbVars, HhmmVars, ParseVars, CmdVars,
                        LoadVars, IdVars, MeasVars, ExtVars>>
OnbSpec ==
    /\ OnbSpecInit
    /\ [][OnbSpecNext]_vars
    /\ WF_vars(OnbTask /\ UNCHANGED <<SchedVars, ApplyVars, TimerVars, MqttVars>>)


\* The load of node_schedule_init applied once to each store of StoreInits,
\* with no read or with one of the 13 reads failing.
LoadSpecInit ==
    /\ LoadInit /\ SchedIdle /\ ApplyIdle /\ TimerIdle /\ OnbIdle
    /\ HhmmIdle /\ ParseIdle /\ CmdIdle /\ IdIdle /\ MeasIdle /\ AppIdle /\ ExtIdle
LoadSpecNext ==
    LoadAtInit /\ UNCHANGED <<SchedVars, ApplyVars, TimerVars, OnbVars, HhmmVars, ParseVars,
                              CmdVars, IdVars, MeasVars, AppVars, ExtVars>>
LoadSpec == LoadSpecInit /\ [][LoadSpecNext]_vars


\* All the state outside the components that follow.
BaseVars == <<SchedVars, ApplyVars, TimerVars, OnbVars, HhmmVars, ParseVars, CmdVars,
              LoadVars, IdVars, MeasVars, AppVars>>
BaseIdle ==
    /\ SchedIdle /\ ApplyIdle /\ TimerIdle /\ OnbIdle /\ HhmmIdle /\ ParseIdle /\ CmdIdle
    /\ LoadIdle /\ IdIdle /\ MeasIdle /\ AppIdle


\* The engine after init with the dispatch task and node_schedule_task
\* interleaved.  A task that can take a step takes one: the scheduler is
\* preemptive and no task of the firmware spins.
RaceOthers == <<ApplyVars, TimerVars, OnbVars, HhmmVars, ParseVars, CmdVars,
                LoadVars, IdVars, MeasVars, AppVars, PrefVars, RingVars>>
RaceSpecInit ==
    /\ RaceInit /\ ApplyIdle /\ TimerIdle /\ OnbIdle /\ HhmmIdle /\ ParseIdle /\ CmdIdle
    /\ LoadIdle /\ IdIdle /\ MeasIdle /\ AppIdle /\ PrefIdle /\ RingIdle
DispatchTask ==
    \/ node_schedule_set_locked
    \/ apply_now_take
    \/ apply_now_snapshot
    \/ apply_now_apply
    \/ node_schedule_get_copy
ReconcileTask ==
    \/ node_schedule_task_snapshot
    \/ node_schedule_task_clock
    \/ node_schedule_task_apply
RaceSpecNext ==
    \/ node_schedule_set_take /\ UNCHANGED RaceOthers
    \/ node_schedule_set_locked /\ UNCHANGED RaceOthers
    \/ apply_now_take /\ UNCHANGED RaceOthers
    \/ apply_now_snapshot /\ UNCHANGED RaceOthers
    \/ apply_now_apply /\ UNCHANGED RaceOthers
    \/ node_schedule_get_take /\ UNCHANGED RaceOthers
    \/ node_schedule_get_copy /\ UNCHANGED RaceOthers
    \/ node_schedule_task_take /\ UNCHANGED RaceOthers
    \/ node_schedule_task_snapshot /\ UNCHANGED RaceOthers
    \/ node_schedule_task_clock /\ UNCHANGED RaceOthers
    \/ node_schedule_task_apply /\ UNCHANGED RaceOthers
    \/ MinutePasses /\ UNCHANGED RaceOthers
RaceSpec ==
    /\ RaceSpecInit
    /\ [][RaceSpecNext]_vars
    /\ WF_vars(DispatchTask /\ UNCHANGED RaceOthers)
    /\ WF_vars(ReconcileTask /\ UNCHANGED RaceOthers)

\* One typed get on each store of PrefInit.
PrefSpecInit == PrefInit /\ BaseIdle /\ LockIdle /\ RingIdle
PrefSpecNext == PrefsGet /\ UNCHANGED <<BaseVars, LockVars, RingVars>>
PrefSpec == PrefSpecInit /\ [][PrefSpecNext]_vars

\* The identity setters after device_identity_init found nothing stored: no
\* name, sensor mode Full.
IdSpecInit ==
    /\ IdIdle /\ SchedIdle /\ ApplyIdle /\ TimerIdle /\ OnbIdle
    /\ HhmmIdle /\ ParseIdle /\ CmdIdle /\ LoadIdle /\ MeasIdle /\ AppIdle /\ ExtIdle
IdSpecNext ==
    \/ SetName /\ UNCHANGED <<ApplyVars, TimerVars, OnbVars, HhmmVars, ParseVars, LoadVars, MeasVars, AppVars, ExtVars>>
    \/ SetSensorMode
         /\ UNCHANGED <<ApplyVars, TimerVars, OnbVars, HhmmVars, ParseVars, LoadVars, MeasVars, AppVars, ExtVars>>
IdSpec == IdSpecInit /\ [][IdSpecNext]_vars

\* The measurement path from the start of the two tasks, the queue empty.
MeasOthers == <<SchedVars, ApplyVars, TimerVars, OnbVars, HhmmVars, ParseVars, CmdVars,
                LoadVars, IdVars, AppVars, ExtVars>>
MeasSpecInit ==
    /\ MeasIdle /\ SchedIdle /\ ApplyIdle /\ TimerIdle /\ OnbIdle
    /\ HhmmIdle /\ ParseIdle /\ CmdIdle /\ LoadIdle /\ IdIdle /\ AppIdle /\ ExtIdle
MeasSpecNext ==
    \/ sensor_task_collect /\ UNCHANGED MeasOthers
    \/ sensor_task_send /\ UNCHANGED MeasOthers
    \/ sensor_task_overwrite /\ UNCHANGED MeasOthers
    \/ mqtt_task /\ UNCHANGED MeasOthers
MeasSpec == MeasSpecInit /\ [][MeasSpecNext]_vars

\* node_schedule_parse_hhmm applied once to each string of HhmmInputs.
HhmmSpecInit == HhmmInit /\ SchedIdle /\ ApplyIdle /\ TimerIdle /\ OnbIdle /\ ParseIdle /\ CmdIdle /\ AuxIdle
HhmmSpecNext ==
    ParseHhmm /\ UNCHANGED <<SchedVars, ApplyVars, TimerVars, OnbVars, ParseVars, CmdVars, AuxVars>>
HhmmSpec == HhmmSpecInit /\ [][HhmmSpecNext]_vars

\* mqtt_parse_command applied once to each payload of ParseInit.
ParseSpecInit == ParseInit /\ SchedIdle /\ ApplyIdle /\ TimerIdle /\ OnbIdle /\ HhmmIdle /\ CmdIdle /\ AuxIdle
ParseSpecNext ==
    ParseCommand /\ UNCHANGED <<SchedVars, ApplyVars, TimerVars, OnbVars, HhmmVars, CmdVars, AuxVars>>
ParseSpec == ParseSpecInit /\ [][ParseSpecNext]_vars

\* The command path after app_main has run: the schedule engine is initialised
\* with its defaults, the clock is not yet valid, the queue is empty.  The
\* command task is a task of its own: it takes a waiting command, and its
\* delay ends.
CmdSpecInit ==
    /\ CmdIdle /\ ApplyIdle /\ TimerIdle /\ OnbIdle /\ HhmmIdle /\ ParseIdle /\ AuxIdle
    /\ nvs_schedule = EmptyStore
    /\ schedule_state = node_schedule_defaults
    /\ schedule_initialized = TRUE
    /\ last_applied_minute = -1
    /\ actuator_state = [t \in TimerNames |-> FALSE]
    /\ sensor_mode = "SENSOR_MODE_FULL"
    /\ time_valid = FALSE
    /\ last_call = Call("init", "ESP_OK")
CmdTask == handle_command_task \/ timed_override_off
CmdSpecNext ==
    \/ mqtt_event_handler /\ UNCHANGED <<SchedVars, ApplyVars, TimerVars, OnbVars, HhmmVars, ParseVars, AuxVars>>
    \/ handle_command_task /\ UNCHANGED <<ApplyVars, TimerVars, OnbVars, HhmmVars, ParseVars, AuxVars>>
    \/ timed_override_off /\ UNCHANGED <<ApplyVars, TimerVars, OnbVars, HhmmVars, ParseVars, AuxVars>>
CmdSpec ==
    /\ CmdSpecInit
    /\ [][CmdSpecNext]_vars
    /\ WF_vars(CmdTask /\ UNCHANGED <<ApplyVars, TimerVars, OnbVars, HhmmVars, ParseVars, AuxVars>>)

\* The ring buffer from a flash that holds no telemetry.bin: storage_init,
\* appends and drops in any order, restarts included.
RingSpecInit == RingIdle /\ BaseIdle /\ PrefIdle /\ LockIdle
RingSpecNext ==
    \/ storage_init /\ UNCHANGED <<BaseVars, PrefVars, LockVars>>
    \/ storage_append_sample /\ UNCHANGED <<BaseVars, PrefVars, LockVars>>
    \/ storage_drop_oldest /\ UNCHANGED <<BaseVars, PrefVars, LockVars>>
RingSpec == RingSpecInit /\ [][RingSpecNext]_vars

\* The command path next to the schedule task and the sensor task, with a
\* valid clock: node_schedule_init loaded a stored schedule whose light and
\* fan windows are disabled and whose offset is 60 while the clock was not
\* yet valid, then the time was synchronised.  MaxCommands messages arrive.
OvrSchedule == MkSchedule(TimerD, TimerA, TimerC, TimerD, 60)
OvrOthers == <<ApplyVars, TimerVars, OnbVars, HhmmVars, ParseVars, AuxVars>>
OvrSpecInit ==
    /\ CmdIdle /\ ApplyIdle /\ TimerIdle /\ OnbIdle /\ HhmmIdle /\ ParseIdle /\ AuxIdle
    /\ nvs_schedule = save_schedule_locked(EmptyStore, OvrSchedule, 0).nvs
    /\ schedule_state = OvrSchedule
    /\ schedule_initialized = TRUE
    /\ last_applied_minute = -1
    /\ actuator_state = [t \in TimerNames |-> FALSE]
    /\ sensor_mode = "SENSOR_MODE_FULL"
    /\ time_valid = TRUE
    /\ last_call = Call("sync", "ESP_OK")
OvrSpecNext ==
    \/ mqtt_event_handler_next_to_tasks /\ UNCHANGED <<SchedVars, OvrOthers>>
    \/ handle_command_task /\ UNCHANGED OvrOthers
    \/ timed_override_off /\ UNCHANGED OvrOthers
    \/ node_schedule_task /\ UNCHANGED <<CmdVars, OvrOthers>>
    \/ sensor_task_sensors_collect /\ UNCHANGED OvrOthers
OvrSpec == OvrSpecInit /\ [][OvrSpecNext]_vars

(***************************************************************************)
(* Properties of the schedule engine                                       *)
(***************************************************************************)
\* The validity the specification states for a schedule: all eight minute
\* fields < 1440 and the offset within [-720, 840].
PassesValidation(s) ==
    /\ \A t \in TimerNames : s[t].start_minute < 1440 /\ s[t].end_minute < 1440
    /\ s.timezone_offset_minutes >= -720
    /\ s.timezone_offset_minutes <= 840

\* C1: for every schedule s that passes validation, whenever node_schedule_set(s)
\* returns success, loading the schedule from the preference store it left
\* yields exactly s, and node_schedule_get returns s.
C1_SetLoadRoundTrip ==
    \A s \in ScheduleInputs, failAt \in WriteFailPoints, now_sec \in NowSecs, cutoff_low \in BOOLEAN :
        LET r == node_schedule_set_outcome(s, failAt, now_sec, cutoff_low)
            loaded == load_schedule_locked(r.nvs_schedule, 0)
        IN (PassesValidation(s) /\ r.rc = "ESP_OK") =>
              /\ loaded.err = "ESP_OK"
              /\ loaded.schedule = s
              /\ node_schedule_get(schedule_initialized, r.schedule_state) = s

\* A Set has just succeeded over a store that held something else before:
\* the store now decodes to the live schedule, a non-default one.
C1_Witness ==
    /\ last_call = Call("set", "ESP_OK")
    /\ schedule_state \in ValidSchedules
    /\ schedule_state.timezone_offset_minutes = 840
    /\ load_schedule_locked(nvs_schedule, 0).schedule = schedule_state

\* C2: node_schedule_set with any start or end minute >= 1440 or an offset
\* outside [-720, 840] returns an error and leaves the live schedule, the 13
\* persisted keys, last_applied_minute and every actuator state unchanged.
C2_InvalidSetRejected ==
    \A s \in ScheduleInputs, failAt \in WriteFailPoints, now_sec \in NowSecs, cutoff_low \in BOOLEAN :
        LET r == node_schedule_set_outcome(s, failAt, now_sec, cutoff_low)
        IN ~PassesValidation(s) =>
              /\ r.rc # "ESP_OK"
              /\ r.schedule_state = schedule_state
              /\ r.nvs_schedule = nvs_schedule
              /\ r.last_applied_minute = last_applied_minute
              /\ r.actuator_state = actuator_state

\* An invalid Set has just been rejected on an initialised engine with a valid
\* clock, a persisted schedule and an actuator switched on.
C2_Witness ==
    /\ last_call = Call("set", "ESP_ERR_INVALID_ARG")
    /\ schedule_initialized
    /\ time_valid
    /\ nvs_schedule \notin StoreInits
    /\ \E t \in TimerNames : actuator_state[t]

\* C3: in every state after node_schedule_init the live schedule has all eight
\* minute fields < 1440 and an offset within [-720, 840].
C3_LiveScheduleValid ==
    schedule_initialized => PassesValidation(schedule_state)

\* The engine was initialised from a store holding a minute of 1440, and the
\* field took its default.
C3_Witness ==
    /\ schedule_initialized
    /\ last_call = Call("init", "ESP_OK")
    /\ nvs_schedule["l_et"] = <<1440>>
    /\ schedule_state.light.end_minute = 1200
    /\ schedule_state.pump = TimerB

\* The window semantics the specification states.
WindowActive(w, m) ==
    /\ w.enabled
    /\ \/ w.start_minute < w.end_minute /\ w.start_minute <= m /\ m < w.end_minute
       \/ w.start_minute > w.end_minute /\ (m >= w.start_minute \/ m < w.end_minute)
       \/ w.start_minute = w.end_minute

\* C4: a window is active at minute m exactly when it is enabled and m lies in
\* [start, end), or the window wraps midnight and m >= start or m < end, or
\* start = end; with the examples {60,120} at 90, 30, 150, {1380,60} at 0,
\* 1439, 700 and {300,300} at every minute.
C4_WindowActive ==
    tw_active # <<>> =>
        /\ tw_active[1] = WindowActive(tw_timer, tw_minute)
        /\ (tw_timer = Timer(TRUE, 60, 120) /\ tw_minute = 90) => tw_active[1]
        /\ (tw_timer = Timer(TRUE, 60, 120) /\ tw_minute \in {30, 150}) => ~tw_active[1]
        /\ (tw_timer = Timer(TRUE, 1380, 60) /\ tw_minute \in {0, 1439}) => tw_active[1]
        /\ (tw_timer = Timer(TRUE, 1380, 60) /\ tw_minute = 700) => ~tw_active[1]
        /\ tw_timer = Timer(TRUE, 300, 300) => tw_active[1]
        /\ ~tw_timer.enabled => ~tw_active[1]

\* The wrapping window has been evaluated at the last minute of the day.
C4_Witness ==
    tw_active = <<TRUE>> /\ tw_timer = Timer(TRUE, 1380, 60) /\ tw_minute = 1439

\* C5 as stated: of two applications of the same schedule and minute the
\* second writes no actuator.
C5_SecondApplicationWritesNothing ==
    ap_step = 2 => ap_wrote[2] = {}

\* C5 amended: the second application writes no actuator, except the pump when
\* its turn-on was blocked by the cutoff float in the first application (pump
\* window active, sensors enabled, pump written and left off).
C5_SecondApplicationWritesOnlyBlockedPump ==
    ap_step = 2 =>
        /\ ap_wrote[2] \subseteq {"pump"}
        /\ "pump" \in ap_wrote[2] =>
              /\ sensor_mode = "SENSOR_MODE_FULL"
              /\ WindowActive(ap_schedule.pump, ap_minute)
              /\ "pump" \in ap_wrote[1]
        /\ \A t \in TimerNames \ {"pump"} : ap_act[t] = WindowActive(ap_schedule[t], ap_minute)

\* Two applications have run; the first switched the mister on and the pump on
\* (not blocked), the second wrote nothing.
C5_Witness ==
    /\ ap_step = 2
    /\ {"mister", "pump"} \subseteq ap_wrote[1]
    /\ ap_act["pump"] /\ ap_act["mister"]
    /\ ap_wrote[2] = {}

(***************************************************************************)
(* Properties of onboarding                                                *)
(***************************************************************************)
\* The run has returned after the fallback credentials connected on a device
\* whose credential store is not provisioned.
FallbackWorkedUnprovisioned ==
    /\ onb_pc = "done"
    /\ ~wifi_provisioned
    /\ onb_trace.path = "factory"
    /\ onb_trace.fb_result = "ESP_OK"

\* C6 as stated: not provisioned and a working fallback credential give success
\* with factory_default = true, wifi_connected = true, provisioning_started = false.
C6_FallbackResultFactoryDefaultTrue ==
    FallbackWorkedUnprovisioned =>
        /\ onb_rc = "ESP_OK"
        /\ out_state.factory_default = TRUE
        /\ out_state.wifi_connected = TRUE
        /\ out_state.provisioning_started = FALSE

\* C6 amended: not provisioned and a working fallback credential give success
\* with factory_default = false, wifi_connected = true, provisioning_started =
\* false (the flag is cleared when the fallback connects).
C6_FallbackResultFactoryDefaultCleared ==
    FallbackWorkedUnprovisioned =>
        /\ onb_rc = "ESP_OK"
        /\ out_state.factory_default = FALSE
        /\ out_state.wifi_connected = TRUE
        /\ out_state.provisioning_started = FALSE

\* The run returned success after the fallback connected on an unprovisioned
\* device, and the completion flag is now stored.
C6_Witness ==
    /\ FallbackWorkedUnprovisioned
    /\ onb_rc = "ESP_OK"
    /\ out_state.wifi_connected
    /\ onboard_nvs["complete"] = <<1>>

FlagResolvesComplete == onb_trace.boot_flag \in {"true", "no_namespace", "read_error"}

C8_AbsentKeyMigrates ==
    (/\ wifi_provisioned
     /\ onb_trace.boot_flag \in {"no_namespace", "key_absent"}
     /\ onb_trace.path # "none") =>
        /\ onb_trace.path = "reconnect"
        /\ ~out_state.provisioning_started
        /\ nvs_fault # "write" => onboard_nvs["complete"] = <<1>>

\* C9: once the provisioning loop is entered the run leaves it only with
\* success and wifi_connected = true, and only when the connected bit was set;
\* a credential-failure event resets the retry counter to 0 and clears the
\* fail bit; a fail bit alone is consumed and the loop waits again; and once
\* the connected bit is set the run returns.
C9_ProvisioningReturnsOnlyOnConnect ==
    /\ [](onb_pc = "prov_wait" =>
            LET e == event_handler("WIFI_PROV_CRED_FAIL", retry_count, wifi_event_bits)
            IN e.retry_count = 0 /\ "WIFI_FAIL_BIT" \notin e.bits)
    /\ [][onb_pc = "prov_wait" =>
            \/ onb_pc' = "prov_wait"
            \/ /\ onb_pc' = "done"
               /\ onb_rc' = "ESP_OK"
               /\ out_state'.wifi_connected
               /\ "WIFI_CONNECTED_BIT" \in wifi_event_bits]_vars
    /\ [][(onb_pc = "prov_wait" /\ wifi_event_bits = {"WIFI_FAIL_BIT"} /\ wifi_event_bits' = {}) =>
            (onb_pc' = "prov_wait" /\ onb_rc' = "none")]_vars
    /\ ((onb_pc = "prov_wait" /\ "WIFI_CONNECTED_BIT" \in wifi_event_bits) ~> (onb_pc = "done"))

\* Provisioning ran, its loop consumed a fail bit and waited again, and the
\* run then returned success after the connected event.
C9_Witness ==
    /\ onb_pc = "done"
    /\ out_state.provisioning_started
    /\ onb_trace.prov_fail_seen
    /\ onb_rc = "ESP_OK"
    /\ out_state.wifi_connected

\* C10: the retry counter never exceeds 5; on the reconnect path provisioning
\* is never started, the stored attempt ends as success, failure or timeout
\* (or the error of the platform call that starts it), exactly one fallback
\* attempt follows a stored attempt that did not succeed when both fallback
\* ssid and password are supplied and none otherwise, the run returns success
\* iff an attempt connected and an error with wifi_connected = false otherwise;
\* and each of the two waits ends.
C10_ReconnectPathBounded ==
    /\ [](retry_count <= 5)
    /\ [](onb_trace.path = "reconnect" =>
            /\ ~out_state.provisioning_started
            /\ onb_pc \notin {"prov_wait", "fb_wait"}
            /\ onb_pc = "done" =>
                  /\ onb_trace.stored_result \in {"ESP_OK", "ESP_FAIL", "ESP_ERR_TIMEOUT"}
                  /\ onb_trace.fb_attempts =
                        (IF onb_trace.stored_result # "ESP_OK" /\ fallback = "both" THEN 1 ELSE 0)
                  /\ (onb_rc = "ESP_OK") <=> onb_trace.attempt_connected
                  /\ (onb_rc = "ESP_OK") <=>
                        (onb_trace.stored_result = "ESP_OK" \/ onb_trace.fb_result = "ESP_OK")
                  /\ out_state.wifi_connected <=> (onb_rc = "ESP_OK")
                  /\ onb_rc # "none")
    /\ ((onb_pc = "saved_wait") ~> (onb_pc \in {"rc_fb_wait", "done"}))
    /\ ((onb_pc = "rc_fb_wait") ~> (onb_pc = "done"))

\* The stored attempt timed out, one fallback attempt followed and connected,
\* and the run returned success.
C10_Witness ==
    /\ onb_pc = "done"
    /\ onb_trace.path = "reconnect"
    /\ onb_trace.stored_result = "ESP_ERR_TIMEOUT"
    /\ onb_trace.fb_attempts = 1
    /\ onb_trace.fb_result = "ESP_OK"
    /\ onb_rc = "ESP_OK"

\* The run has returned success through the factory-default path.
FactorySuccess ==
    /\ onb_pc = "done"
    /\ onb_rc = "ESP_OK"
    /\ onb_trace.path = "factory"

\* The store holds complete = true and the resolved addresses, and a later
\* boot that reads it with provisioned credentials computes factory_default =
\* false.
CompletionStored ==
    /\ onboard_nvs["complete"] = <<1>>
    /\ onboard_nvs["mqtt_uri"] = <<out_state.mqtt_uri>>
    /\ onboard_nvs["hub_url"] = <<out_state.hub_url>>
    /\ LET lc == load_onboarding_complete(onboard_nvs, "none")
       IN lc.err = "ESP_OK" /\ lc.complete /\ ~lc.missing

DigitAt(s, i) == s[i] \in 48..57
WellFormedHhmm(value) ==
    /\ ~value.null
    /\ Len(value.chars) = 5
    /\ DigitAt(value.chars, 1) /\ DigitAt(value.chars, 2)
    /\ value.chars[3] = 58
    /\ DigitAt(value.chars, 4) /\ DigitAt(value.chars, 5)
    /\ (value.chars[1] - 48) * 10 + (value.chars[2] - 48) \in 0..23
    /\ (value.chars[4] - 48) * 10 + (value.chars[5] - 48) \in 0..59
HhmmMinutes(value) ==
    ((value.chars[1] - 48) * 10 + (value.chars[2] - 48)) * 60
        + (value.chars[4] - 48) * 10 + (value.chars[5] - 48)
HhmmExample(s, ok, minutes) ==
    hh_value = CStr(s) /\ hh_result # <<>>
        => hh_result[1] = ok /\ (ok => hh_out = minutes)

\* C18: node_schedule_parse_hhmm returns true exactly on the 5-character
\* strings DD:DD with hour 0..23 and minute 0..59, and then stores
\* hour*60+minute; "00:00" gives 0 and "23:59" gives 1439; "24:00", "12:60"
\* and "1:00" fail; a failing call leaves *out_minutes as it was.
C18_ParseHhmmExact ==
    [][(hh_result = <<>> /\ hh_result' # <<>>)
        => /\ hh_result'[1] = WellFormedHhmm(hh_value)
           /\ hh_out' = (IF WellFormedHhmm(hh_value) THEN HhmmMinutes(hh_value) ELSE hh_out)
           /\ HhmmExample(<<48, 48, 58, 48, 48>>, TRUE, 0)'
           /\ HhmmExample(<<50, 51, 58, 53, 57>>, TRUE, 1439)'
           /\ HhmmExample(<<50, 52, 58, 48, 48>>, FALSE, 0)'
           /\ HhmmExample(<<49, 50, 58, 54, 48>>, FALSE, 0)'
           /\ HhmmExample(<<49, 58, 48, 48>>, FALSE, 0)']_vars
C18_Witness ==
    /\ hh_value = CStr(<<50, 51, 58, 53, 57>>)
    /\ hh_result = <<TRUE>>
    /\ hh_out = 1439


(***************************************************************************)
(* Properties of the command parser                                        *)
(***************************************************************************)
\* The message as the specification sees it: the keys of a payload that was
\* parsed into an object, and the command that came out.
ParsedObject ==
    /\ pp_cmd # <<>>
    /\ ~pp_payload.null /\ pp_payload.len > 0 /\ pp_payload.parsed # <<>>
    /\ pp_payload.parsed[1].t = "object"
Field(k) == pp_payload.parsed[1].o[1][k]
Has(k) == Field(k).t # "absent"
Is(k, t) == Field(k).t = t
Text(k, s) == Field(k).t = "string" /\ Field(k).s = s
ActuatorKeys == {"pump", "fan", "mister", "light"}
ConfigKeys == {"deviceName", "displayName", "sensorMode", "sensorsEnabled", "schedule"}
OverrideOf(k) ==
    CASE k = "pump" -> "MQTT_CMD_PUMP_OVERRIDE"
      [] k = "fan" -> "MQTT_CMD_FAN_OVERRIDE"
      [] k = "mister" -> "MQTT_CMD_MISTER_OVERRIDE"
      [] k = "light" -> "MQTT_CMD_LIGHT_OVERRIDE"
FlagOf(cmd, k) ==
    CASE k = "pump" -> cmd.pump_on
      [] k = "fan" -> cmd.fan_on
      [] k = "mister" -> cmd.mister_on
      [] k = "light" -> cmd.light_on
NoActuatorFlag(cmd) == \A k \in ActuatorKeys : ~FlagOf(cmd, k)
\* k is the only key of the message besides duration_ms and requestId.
Alone(k) ==
    /\ Has(k)
    /\ \A j \in JsonKeys \ {k, "duration_ms", "requestId"} : ~Has(j)
OnValue(k) == (Is(k, "bool") /\ Field(k).b) \/ Text(k, <<111, 110>>)
OffValue(k) == (Is(k, "bool") /\ ~Field(k).b) \/ Text(k, <<111, 102, 102>>)
PositiveInteger(n) == ~n.neg /\ n.f = 0 /\ (n.g > 0 \/ n.r > 0)
\* d is the number n (n is in decimal: g billions, r below 10^9).
SameNumber(d, n) == d \div 1000000000 = n.g /\ d % 1000000000 = n.r
\* n converted to int: the fraction dropped, at most 2147483647.
AsInt(n) ==
    IF n.g > 2 \/ (n.g = 2 /\ n.r >= 147483647) THEN 2147483647
    ELSE n.g * 1000000000 + n.r
OverrideParsed(k) ==
    /\ pp_cmd[1].type = OverrideOf(k)
    /\ OnValue(k) => FlagOf(pp_cmd[1], k)
    /\ OffValue(k) => ~FlagOf(pp_cmd[1], k)
    /\ \A j \in ActuatorKeys \ {k} : ~FlagOf(pp_cmd[1], j)
    /\ ~Has("requestId") => pp_cmd[1].request_id = <<>>

\* The statement as the specification makes it: every positive integer
\* duration_ms is copied, anything else gives 0.
C14_SingleActuatorCopiesDuration ==
    \A k \in ActuatorKeys :
        (ParsedObject /\ Alone(k) /\ (OnValue(k) \/ OffValue(k)))
            => /\ OverrideParsed(k)
               /\ IF Is("duration_ms", "number") /\ PositiveInteger(Field("duration_ms").n)
                  THEN SameNumber(pp_cmd[1].duration_ms, Field("duration_ms").n)
                  ELSE pp_cmd[1].duration_ms = 0

\* C14: a message with one actuator key k (besides duration_ms and requestId)
\* whose value is true or "on" parses to k's override with on = true, false or
\* "off" to k's override with on = false; the request id is empty when
\* requestId is absent; duration_ms is the number converted to int (fraction
\* dropped, at most 2147483647) when that is positive, and 0 otherwise.
C14_SingleActuatorDurationAsInt ==
    \A k \in ActuatorKeys :
        (ParsedObject /\ Alone(k) /\ (OnValue(k) \/ OffValue(k)))
            => /\ OverrideParsed(k)
               /\ IF Is("duration_ms", "number") /\ ~Field("duration_ms").n.neg
                  THEN pp_cmd[1].duration_ms = AsInt(Field("duration_ms").n)
                  ELSE pp_cmd[1].duration_ms = 0
C14_Witness ==
    /\ ParsedObject /\ Alone("mister") /\ Text("mister", <<111, 102, 102>>)
    /\ Is("duration_ms", "number") /\ Field("duration_ms").n = [neg |-> FALSE, g |-> 0, r |-> 1500, f |-> 0]
    /\ ~Has("requestId")
    /\ pp_cmd[1].type = "MQTT_CMD_MISTER_OVERRIDE"
    /\ ~pp_cmd[1].mister_on
    /\ pp_cmd[1].duration_ms = 1500

\* C15: without a configuration field and without an actuator key, an action
\* of "sensor_read" or "sensorRead" (or such a command when action is not a
\* string) parses to a sensor read request; a requestId shorter than 64
\* characters is copied verbatim, the actuator flags are false and the
\* duration is 0.
SensorReadWord(k) ==
    Text(k, <<115, 101, 110, 115, 111, 114, 95, 114, 101, 97, 100>>)
        \/ Text(k, <<115, 101, 110, 115, 111, 114, 82, 101, 97, 100>>)
C15_SensorReadRequest ==
    (/\ ParsedObject
     /\ \A k \in ConfigKeys \cup ActuatorKeys : ~Has(k)
     /\ SensorReadWord("action") \/ (~Is("action", "string") /\ SensorReadWord("command")))
        => /\ pp_cmd[1].type = "MQTT_CMD_SENSOR_READ"
           /\ (Is("requestId", "string") /\ Len(Field("requestId").s) < 64)
                => pp_cmd[1].request_id = Field("requestId").s
           /\ NoActuatorFlag(pp_cmd[1])
           /\ pp_cmd[1].duration_ms = 0
C15_Witness ==
    /\ ParsedObject
    /\ ~Has("action") /\ SensorReadWord("command")
    /\ Text("requestId", <<114, 101, 113, 45, 49, 50, 51>>)
    /\ pp_cmd[1].type = "MQTT_CMD_SENSOR_READ"
    /\ pp_cmd[1].request_id = <<114, 101, 113, 45, 49, 50, 51>>

\* C16: a null payload, a payload of length <= 0 and a text that cJSON_Parse
\* rejects each parse to a command of type Unknown with empty request id and
\* device name, no sensor-mode or schedule flag, every actuator flag false
\* and duration 0.
C16_UnparsedIsUnknown ==
    (pp_cmd # <<>> /\ (pp_payload.null \/ pp_payload.len <= 0 \/ pp_payload.parsed = <<>>))
        => /\ pp_cmd[1].type = "MQTT_CMD_UNKNOWN"
           /\ pp_cmd[1].request_id = <<>> /\ pp_cmd[1].device_name = <<>>
           /\ ~pp_cmd[1].has_sensor_mode /\ ~pp_cmd[1].has_schedule
           /\ NoActuatorFlag(pp_cmd[1])
           /\ pp_cmd[1].duration_ms = 0
C16_Witness ==
    /\ pp_cmd # <<>>
    /\ ~pp_payload.null /\ pp_payload.len > 0 /\ pp_payload.parsed = <<>>
    /\ pp_cmd[1].type = "MQTT_CMD_UNKNOWN"

\* C17: a requestId of 64 characters or more leaves the request id empty, and
\* the command is the one the same message without requestId parses to.
WithoutRequestId ==
    [pp_payload EXCEPT !.parsed[1].o[1]["requestId"] = JAbsent]
C17_LongRequestIdIgnored ==
    (ParsedObject /\ Is("requestId", "string") /\ Len(Field("requestId").s) >= 64)
        => /\ pp_cmd[1].request_id = <<>>
           /\ pp_cmd[1] = mqtt_parse_command(WithoutRequestId)
C17_Witness ==
    /\ ParsedObject /\ Is("requestId", "string") /\ Len(Field("requestId").s) = 64
    /\ pp_cmd[1].type = "MQTT_CMD_SENSOR_READ"
    /\ pp_cmd[1].request_id = <<>>

\* C19: a command that carries a parsed device name, sensor mode or schedule
\* is a configuration update with every actuator flag false and duration 0,
\* whatever action, command, actuator keys and duration_ms the message has.
C19_ConfigUpdateHasPriority ==
    (ParsedObject
        /\ (pp_cmd[1].device_name # <<>> \/ pp_cmd[1].has_sensor_mode \/ pp_cmd[1].has_schedule))
        => /\ pp_cmd[1].type = "MQTT_CMD_CONFIG_UPDATE"
           /\ NoActuatorFlag(pp_cmd[1])
           /\ pp_cmd[1].duration_ms = 0
C19_Witness ==
    /\ ParsedObject
    /\ Text("pump", <<111, 110>>) /\ Is("duration_ms", "number")
    /\ Has("schedule") /\ pp_cmd[1].has_schedule
    /\ pp_cmd[1].type = "MQTT_CMD_CONFIG_UPDATE"
    /\ ~pp_cmd[1].pump_on

\* The statement as the specification makes it: the first key that is in
\* the message decides.
KeyRank(k) == CASE k = "pump" -> 1 [] k = "fan" -> 2 [] k = "mister" -> 3 [] k = "light" -> 4
NotConfig == pp_cmd[1].device_name = <<>> /\ ~pp_cmd[1].has_sensor_mode /\ ~pp_cmd[1].has_schedule
C20_FirstPresentKeyDecides ==
    \A k \in ActuatorKeys :
        (ParsedObject /\ NotConfig /\ Has(k)
            /\ \A j \in ActuatorKeys : KeyRank(j) < KeyRank(k) => ~Has(j))
            => /\ pp_cmd[1].type = OverrideOf(k)
               /\ \A j \in ActuatorKeys \ {k} : ~FlagOf(pp_cmd[1], j)

\* C20: of the keys pump, fan, mister, light, in this order, the first one
\* whose value is a boolean or a string decides the command; a key with any
\* other value is passed over like an absent one; the flags of the other
\* actuators stay false.
Usable(k) == Is(k, "bool") \/ Is(k, "string")
C20_FirstUsableKeyDecides ==
    \A k \in ActuatorKeys :
        (ParsedObject /\ NotConfig /\ Usable(k)
            /\ \A j \in ActuatorKeys : KeyRank(j) < KeyRank(k) => ~Usable(j))
            => /\ pp_cmd[1].type = OverrideOf(k)
               /\ \A j \in ActuatorKeys \ {k} : ~FlagOf(pp_cmd[1], j)
C20_Witness ==
    /\ ParsedObject
    /\ Is("pump", "bool") /\ Field("pump").b /\ Text("fan", <<111, 110>>) /\ Has("light")
    /\ pp_cmd[1].type = "MQTT_CMD_PUMP_OVERRIDE"
    /\ pp_cmd[1].pump_on /\ ~pp_cmd[1].fan_on /\ ~pp_cmd[1].light_on


\* C38: a message without configuration field whose action or command is
\* "sensor_read" or "sensorRead" and which has an actuator key with a boolean
\* or string value parses to the override of the first such key (pump, fan,
\* mister, light), never to a sensor read request.
C38_ActuatorKeyOverridesReadRequest ==
    \A k \in ActuatorKeys :
        (ParsedObject /\ (\A c \in ConfigKeys : ~Has(c))
            /\ (SensorReadWord("action") \/ SensorReadWord("command"))
            /\ Usable(k)
            /\ \A j \in ActuatorKeys : KeyRank(j) < KeyRank(k) => ~Usable(j))
            => /\ pp_cmd[1].type = OverrideOf(k)
               /\ pp_cmd[1].type # "MQTT_CMD_SENSOR_READ"
               /\ OnValue(k) => FlagOf(pp_cmd[1], k)
C38_Witness ==
    /\ ParsedObject /\ (\A c \in ConfigKeys : ~Has(c))
    /\ SensorReadWord("action")
    /\ Text("light", <<111, 110>>)
    /\ \A j \in {"pump", "fan", "mister"} : ~Usable(j)
    /\ pp_cmd[1].type = "MQTT_CMD_LIGHT_OVERRIDE"
    /\ pp_cmd[1].light_on

(***************************************************************************)
(* Properties of the command path                                          *)
(***************************************************************************)
QueuedNumbers == [i \in 1..Len(command_queue) |-> command_queue[i].n]
IsQueued(n) == cmd_fate[n] = "queued"
AcceptedNumbers == SelectSeq([i \in 1..Len(cmd_fate) |-> i], IsQueued)
MessageArrives == cmd_arrived' = cmd_arrived + 1

\* C12: the network callback always runs to its end: with 4 commands in the
\* queue an arriving message leaves the queue, its 4 commands and their order
\* as they are and the new command is dropped; the queue never holds more
\* than 4 commands.
C12_FullQueueDropsNewest ==
    /\ [](Len(command_queue) <= 4)
    /\ [](cmd_arrived < MaxArrivals
            => ENABLED (mqtt_event_handler
                          /\ UNCHANGED <<SchedVars, ApplyVars, TimerVars, OnbVars, HhmmVars, ParseVars, AuxVars>>))
    /\ [][(MessageArrives /\ Len(command_queue) = 4)
            => /\ command_queue' = command_queue
               /\ cmd_fate'[cmd_arrived'] \in {"dropped", "unknown", "ignored"}]_vars
C12_Witness ==
    /\ Len(command_queue) = 4
    /\ cmd_fate # <<>> /\ cmd_fate[Len(cmd_fate)] = "dropped"
    /\ QueuedNumbers = <<1, 2, 3, 4>>

\* C13: the commands the task has received, followed by the commands waiting
\* in the queue, are exactly the accepted commands in their order of arrival
\* (so each is received at most once, in FIFO order, and no unknown, ignored
\* or dropped message is received), and every accepted command is received
\* eventually.
C13_AcceptedHandledOnceInOrder ==
    /\ [](cmd_handled \o QueuedNumbers = AcceptedNumbers)
    /\ \A n \in 1..MaxArrivals :
         (n <= Len(cmd_fate) /\ cmd_fate[n] = "queued")
            ~> (\E i \in 1..Len(cmd_handled) : cmd_handled[i] = n)
C13_Witness ==
    /\ cmd_arrived = 6
    /\ cmd_fate = <<"queued", "queued", "queued", "queued", "dropped", "unknown">>
    /\ cmd_handled = <<1, 2, 3, 4>>
    /\ command_queue = <<>> /\ cmd_task = <<>>

(***************************************************************************)
(* Properties of configuration messages on the command path                *)
(***************************************************************************)
\* Message n as the specification sees it: its keys, and whether its
\* schedule object has a sub-object that is missing, lacks a field or holds
\* a time that is no HH:MM.
MessageParsed(n) ==
    /\ n \in 1..Len(cmd_messages)
    /\ cmd_messages[n][1]
    /\ cmd_messages[n][2].parsed # <<>>
MessageField(n, k) == cmd_messages[n][2].parsed[1].o[1][k]
MemberPresent(obj, k) == k \in DOMAIN obj.o[1] /\ obj.o[1][k].t # "absent"
SubObjectSound(obj) ==
    /\ obj.t = "object"
    /\ MemberPresent(obj, "enabled") /\ obj.o[1]["enabled"].t = "bool"
    /\ \A k \in {"startTime", "endTime"} :
         /\ MemberPresent(obj, k) /\ obj.o[1][k].t = "string"
         /\ WellFormedHhmm([null |-> FALSE, chars |-> obj.o[1][k].s])
ScheduleFlawed(n) ==
    /\ MessageParsed(n)
    /\ MessageField(n, "schedule").t = "object"
    /\ \E t \in {"light", "pump", "mister", "fan"} :
         \/ ~MemberPresent(MessageField(n, "schedule"), t)
         \/ ~SubObjectSound(MessageField(n, "schedule").o[1][t])
NamedIn(n) ==
    /\ MessageField(n, "deviceName").t = "string"
    /\ Len(MessageField(n, "deviceName").s) \in 1..31
HandlerReceives(n) == cmd_handled' = Append(cmd_handled, n)
Published(status) == \E i \in 1..Len(cmd_status) : cmd_status[i] = status

\* C21: a message whose schedule object has a missing sub-object, a
\* sub-object without enabled, startTime or endTime, or a time that is no
\* HH:MM is queued with has_schedule = false and with its valid deviceName
\* and sensorMode parsed; when the task handles it, the live and the stored
\* schedule stay as they are and no schedule status is published, while the
\* name and the mode are handed to their setters, which change them unless
\* the write fails.
C21_FlawedScheduleNotApplied ==
    /\ [][\A n \in 1..MaxArrivals :
            (MessageArrives /\ cmd_arrived' = n /\ ScheduleFlawed(n)' /\ NamedIn(n)')
            => /\ cmd_fate'[n] = "queued"
               /\ LET cmd == command_queue'[Len(command_queue')].cmd
                  IN  /\ cmd.type = "MQTT_CMD_CONFIG_UPDATE"
                      /\ ~cmd.has_schedule
                      /\ cmd.device_name = MessageField(n, "deviceName")'.s
                      /\ (MessageField(n, "sensorMode")'
                            = [t |-> "string", b |-> FALSE, s |-> <<99, 111, 110, 116, 114, 111, 108>>,
                               n |-> [neg |-> FALSE, g |-> 0, r |-> 0, f |-> 0], o |-> <<>>]
                          => cmd.has_sensor_mode /\ cmd.sensor_mode = "SENSOR_MODE_CONTROL_ONLY")]_vars
    /\ [][\A n \in 1..MaxArrivals :
            (HandlerReceives(n) /\ ScheduleFlawed(n) /\ NamedIn(n))
            => /\ schedule_state' = schedule_state
               /\ nvs_schedule' = nvs_schedule
               /\ actuator_state' = actuator_state
               /\ ~Published(<<"schedule", "updated">>)' /\ ~Published(<<"schedule", "update_failed">>)'
               /\ Published(<<"name", "updated">>)' \/ Published(<<"name", "update_failed">>)'
               /\ Published(<<"name", "updated">>)'
                    => device_name' = MessageField(n, "deviceName").s
               /\ Published(<<"name", "update_failed">>)' => device_name' = device_name
               /\ Published(<<"sensor_mode", "updated">>)'
                    \/ Published(<<"sensor_mode", "update_failed">>)'
               /\ Published(<<"sensor_mode", "updated">>)'
                    => sensor_mode' = "SENSOR_MODE_CONTROL_ONLY"]_vars
C21_Witness ==
    /\ cmd_handled = <<1>>
    /\ ScheduleFlawed(1)
    /\ ~MemberPresent(MessageField(1, "schedule"), "light")
    /\ cmd_status = <<<<"name", "updated">>, <<"sensor_mode", "updated">>>>
    /\ device_name = <<115, 101, 110, 115, 111, 114, 115>>
    /\ sensor_mode = "SENSOR_MODE_CONTROL_ONLY"
    /\ schedule_state.light = [enabled |-> FALSE, start_minute |-> 360, end_minute |-> 1200]

(***************************************************************************)
(* Properties of the configuration fields in the parser                    *)
(***************************************************************************)
\* The fields as the specification sees them: the name item is deviceName,
\* or displayName when deviceName is not in the message; a mode word is
\* compared without regard to case.
Lower(s) == [i \in 1..Len(s) |-> IF s[i] \in 65..90 THEN s[i] + 32 ELSE s[i]]
NameField == IF Has("deviceName") THEN Field("deviceName") ELSE Field("displayName")
NameParses == NameField.t = "string" /\ Len(NameField.s) \in 1..31
ControlOnlyWord(s) ==
    Lower(s) \in {<<99, 111, 110, 116, 114, 111, 108, 95, 111, 110, 108, 121>>,
                  <<99, 111, 110, 116, 114, 111, 108, 45, 111, 110, 108, 121>>,
                  <<99, 111, 110, 116, 114, 111, 108>>}
FullWord(s) ==
    Lower(s) \in {<<102, 117, 108, 108>>, <<115, 101, 110, 115, 111, 114, 115>>,
                  <<101, 110, 97, 98, 108, 101, 100>>}
ModeParses ==
    \/ Is("sensorMode", "string")
          /\ (ControlOnlyWord(Field("sensorMode").s) \/ FullWord(Field("sensorMode").s))
    \/ Is("sensorsEnabled", "bool")
ModeAsked ==
    IF Is("sensorsEnabled", "bool")
    THEN (IF Field("sensorsEnabled").b THEN "SENSOR_MODE_FULL" ELSE "SENSOR_MODE_CONTROL_ONLY")
    ELSE (IF FullWord(Field("sensorMode").s) THEN "SENSOR_MODE_FULL" ELSE "SENSOR_MODE_CONTROL_ONLY")
ScheduleParses ==
    /\ Is("schedule", "object")
    /\ \A t \in {"light", "pump", "mister", "fan"} :
         MemberPresent(Field("schedule"), t) /\ SubObjectSound(Field("schedule").o[1][t])
ConfigFields == {"deviceName", "displayName", "sensorMode", "sensorsEnabled", "schedule",
                 "tzOffsetMinutes"}

\* C22 as stated: a message in which any one of the configuration fields is
\* present is parsed to a ConfigUpdate.
C22_AnyPresentFieldMarksConfig ==
    (ParsedObject /\ \E k \in ConfigFields : Has(k))
        => pp_cmd[1].type = "MQTT_CMD_CONFIG_UPDATE"

\* C22: the command is a ConfigUpdate exactly when the name, the sensor mode
\* or the schedule parses; the name is set exactly when the name item is a
\* string of 1 to 31 characters, has_sensor_mode exactly when sensorMode
\* names a mode or sensorsEnabled is a boolean, has_schedule exactly when
\* the schedule object is complete; tzOffsetMinutes marks nothing.
C22_ParsedFieldMarksConfig ==
    ParsedObject
        => /\ pp_cmd[1].type = "MQTT_CMD_CONFIG_UPDATE"
                <=> (NameParses \/ ModeParses \/ ScheduleParses)
           /\ pp_cmd[1].device_name = (IF NameParses THEN NameField.s ELSE <<>>)
           /\ pp_cmd[1].has_sensor_mode <=> ModeParses
           /\ ModeParses => pp_cmd[1].sensor_mode = ModeAsked
           /\ pp_cmd[1].has_schedule <=> ScheduleParses
C22_Witness ==
    /\ ParsedObject
    /\ Field("deviceName") = [t |-> "string", b |-> FALSE, s |-> <<112, 111, 116>>,
                              n |-> [neg |-> FALSE, g |-> 0, r |-> 0, f |-> 0], o |-> <<>>]
    /\ Is("sensorMode", "string") /\ ~ModeParses
    /\ Is("schedule", "object") /\ ~ScheduleParses
    /\ Has("tzOffsetMinutes")
    /\ pp_cmd[1].type = "MQTT_CMD_CONFIG_UPDATE"
    /\ pp_cmd[1].device_name = <<112, 111, 116>>
    /\ ~pp_cmd[1].has_sensor_mode /\ ~pp_cmd[1].has_schedule

(***************************************************************************)
(* Properties of the schedule load                                         *)
(***************************************************************************)
\* A field of a schedule by its key, and the value the specification expects
\* for it from the store alone: the stored value when there is one and it is
\* in range (a flag is raw != 0, a minute is below 1440, the offset lies in
\* -720..840), the hardcoded default otherwise.
FieldAt(schedule, k) ==
    IF k = "tz_ofs" THEN schedule.timezone_offset_minutes
    ELSE schedule[KeyField[k][1]][KeyField[k][2]]
FromStore(k) ==
    LET default == FieldAt(node_schedule_defaults, k)
    IN  IF ld_nvs[k] = <<>> THEN default
        ELSE IF k \in {"l_en", "p_en", "m_en", "f_en"} THEN ld_nvs[k][1] # 0
        ELSE IF k = "tz_ofs"
             THEN (IF ld_nvs[k][1] \in -720..840 THEN ld_nvs[k][1] ELSE default)
             ELSE (IF ld_nvs[k][1] < 1440 THEN ld_nvs[k][1] ELSE default)
Unreadable(k) == ld_fail # 0 /\ SCHEDULE_KEYS[ld_fail] = k

\* C23 as stated: after the load every field holds its stored value unless
\* that very field is missing, unreadable or out of range, in which case it
\* holds its default.
C23_EveryFailureIsPerField ==
    ld_schedule # <<>>
        => \A k \in KeySet :
             FieldAt(ld_schedule[1], k)
                = (IF Unreadable(k) THEN FieldAt(node_schedule_defaults, k) ELSE FromStore(k))

\* C23: when every read returns a value or reports the key as not stored,
\* each of the 13 fields holds its stored value if there is one in range and
\* its default otherwise, independently of the other fields; when a read
\* fails with an I/O error, all 13 fields hold their defaults.
C23_MissingAndRangePerFieldReadErrorAll ==
    ld_schedule # <<>>
        => \A k \in KeySet :
             FieldAt(ld_schedule[1], k)
                = (IF ld_fail = 0 THEN FromStore(k) ELSE FieldAt(node_schedule_defaults, k))
C23_Witness ==
    /\ ld_schedule # <<>>
    /\ ld_fail = 0
    /\ ld_nvs["p_st"] = <<>> /\ ld_nvs["p_et"] = <<60>> /\ ld_nvs["l_st"] = <<60>>
    /\ ld_schedule[1].pump = [enabled |-> TRUE, start_minute |-> 420, end_minute |-> 60]
    /\ ld_schedule[1].light = [enabled |-> TRUE, start_minute |-> 60, end_minute |-> 120]

(***************************************************************************)
(* Properties of the schedule engine and the clock                         *)
(***************************************************************************)
EngineStep(op) == last_call'.op = op

\* C24: while the clock is not valid, a call of node_schedule_init or
\* node_schedule_set and an iteration of node_schedule_task leave the four
\* actuators and last_applied_minute as they are.
C24_InertWithoutClock ==
    [][(~time_valid /\ (EngineStep("init") \/ EngineStep("set") \/ EngineStep("task")))
        => actuator_state' = actuator_state /\ last_applied_minute' = last_applied_minute]_vars
C24_Witness ==
    /\ ~time_valid
    /\ last_call = [op |-> "set", rc |-> "ESP_OK"]
    /\ schedule_state.pump = [enabled |-> TRUE, start_minute |-> 1380, end_minute |-> 60]
    /\ schedule_state.timezone_offset_minutes = -720
    /\ last_applied_minute = -1
    /\ \A t \in {"light", "pump", "mister", "fan"} : ~actuator_state[t]

\* C25: an iteration of node_schedule_task with a valid clock, at computed
\* minute m: if m equals last_applied_minute nothing is written and nothing
\* changes; otherwise exactly the actuators whose state differs from what
\* their window asks for at m are written, the others keep their state, and
\* last_applied_minute becomes m.
C25_TickReevaluatesOnNewMinute ==
    [][(EngineStep("task") /\ time_valid /\ schedule_initialized)
        => LET m == last_call'.minute
               differing == {t \in {"light", "pump", "mister", "fan"} :
                               actuator_state[t] # WindowActive(schedule_state[t], m)}
           IN  /\ m \in 0..1439
               /\ IF m = last_applied_minute
                  THEN /\ last_call'.wrote = {}
                       /\ actuator_state' = actuator_state
                       /\ last_applied_minute' = last_applied_minute
                  ELSE /\ last_call'.wrote = differing
                       /\ \A t \in {"light", "pump", "mister", "fan"} \ differing :
                            actuator_state'[t] = actuator_state[t]
                       /\ \A t \in differing \ {"pump"} :
                            actuator_state'[t] = WindowActive(schedule_state[t], m)
                       /\ last_applied_minute' = m]_vars
C25_Witness ==
    /\ time_valid /\ schedule_initialized
    /\ last_call.op = "task"
    /\ last_call.wrote = {"light", "mister"}
    /\ last_call.minute = last_applied_minute
    /\ actuator_state["light"] /\ actuator_state["mister"] /\ ~actuator_state["fan"]

(***************************************************************************)
(* Properties of timed overrides                                           *)
(***************************************************************************)
Delaying == cmd_task # <<>>
DelayedActuator ==
    LET type == cmd_task[1].cmd.type
    IN  CASE type = "MQTT_CMD_PUMP_OVERRIDE" -> "pump"
          [] type = "MQTT_CMD_FAN_OVERRIDE" -> "fan"
          [] type = "MQTT_CMD_MISTER_OVERRIDE" -> "mister"
          [] type = "MQTT_CMD_LIGHT_OVERRIDE" -> "light"
OffCommandWaits(name) ==
    \E i \in 1..Len(command_queue) :
        /\ command_queue[i].cmd.type = "MQTT_CMD_PUMP_OVERRIDE" /\ name = "pump"
        /\ ~command_queue[i].cmd.pump_on

PumpOnHandled ==
    /\ ~Delaying /\ command_queue # <<>>
    /\ command_queue[1].cmd.type = "MQTT_CMD_PUMP_OVERRIDE"
    /\ command_queue[1].cmd.pump_on
    /\ cmd_handled' = Append(cmd_handled, command_queue[1].n)

\* C28 as stated: a pump-on override switches the pump on whatever the cutoff
\* float reads.
C28_OverrideIgnoresCutoff ==
    [][PumpOnHandled => actuator_state'["pump"]]_vars

\* C28: in sensor mode Full a pump-on override reads the cutoff float and
\* switches the pump on only if the float is not low (a blocked turn-on still
\* publishes "pump_on"); in sensor mode ControlOnly the float is not read and
\* the pump is switched on.
C28_OverrideChecksCutoffWhenSensorsEnabled ==
    [][PumpOnHandled
        => /\ cmd_status' = <<<<"pump", "on">>>>
           /\ IF sensor_mode = "SENSOR_MODE_FULL"
              THEN cutoff_read' # <<>> /\ actuator_state'["pump"] = ~cutoff_read'[1]
              ELSE cutoff_read' = <<>> /\ actuator_state'["pump"]]_vars
C28_Witness ==
    /\ sensor_mode = "SENSOR_MODE_FULL"
    /\ cutoff_read = <<TRUE>>
    /\ cmd_status = <<<<"pump", "on">>>>
    /\ ~actuator_state["pump"]
    /\ Delaying

(***************************************************************************)
(* Properties of the identity setters                                      *)
(***************************************************************************)
SetterReturns(op) ==
    /\ id_call' # <<>>
    /\ id_call'[1].op = op
    /\ \/ id_call' # id_call
       \/ device_name' # device_name \/ sensor_mode' # sensor_mode \/ nvs_device' # nvs_device
WriteAndCommitSucceed == id_call'[1].fault = "none"

\* C30: device_identity_set_name called with a null pointer, an empty name
\* or a name of 32 or more characters, and device_identity_set_sensor_mode
\* called with a mode that is neither Full nor ControlOnly, return
\* ESP_ERR_INVALID_ARG and leave the stored and the in-memory name and mode
\* as they are; on a valid argument the in-memory value becomes the argument
\* and ESP_OK is returned if the write and the commit succeeded, and stays
\* as it was, with an error returned, if not.
C30_SettersValidateAndFollowTheWrite ==
    /\ [][SetterReturns("set_name")
            => LET name == id_call'[1].name
               IN  /\ sensor_mode' = sensor_mode
                   /\ nvs_device'.sensor_mode = nvs_device.sensor_mode
                   /\ IF name.null \/ Len(name.chars) = 0 \/ Len(name.chars) >= 32
                      THEN /\ id_call'[1].rc = "ESP_ERR_INVALID_ARG"
                           /\ device_name' = device_name
                           /\ nvs_device' = nvs_device
                      ELSE IF WriteAndCommitSucceed
                      THEN /\ id_call'[1].rc = "ESP_OK"
                           /\ device_name' = name.chars
                           /\ nvs_device'.display_name = <<name.chars>>
                      ELSE /\ id_call'[1].rc \notin {"ESP_OK", "ESP_ERR_INVALID_ARG"}
                           /\ device_name' = device_name]_vars
    /\ [][SetterReturns("set_sensor_mode")
            => LET mode == id_call'[1].mode
               IN  /\ device_name' = device_name
                   /\ nvs_device'.display_name = nvs_device.display_name
                   /\ IF mode \notin {"SENSOR_MODE_FULL", "SENSOR_MODE_CONTROL_ONLY"}
                      THEN /\ id_call'[1].rc = "ESP_ERR_INVALID_ARG"
                           /\ sensor_mode' = sensor_mode
                           /\ nvs_device' = nvs_device
                      ELSE IF WriteAndCommitSucceed
                      THEN /\ id_call'[1].rc = "ESP_OK"
                           /\ sensor_mode' = mode
                           /\ nvs_device'.sensor_mode = <<mode>>
                      ELSE /\ id_call'[1].rc \notin {"ESP_OK", "ESP_ERR_INVALID_ARG"}
                           /\ sensor_mode' = sensor_mode]_vars
C30_Witness ==
    /\ id_call # <<>>
    /\ id_call[1].op = "set_name"
    /\ ~id_call[1].name.null /\ Len(id_call[1].name.chars) = 32
    /\ id_call[1].rc = "ESP_ERR_INVALID_ARG"
    /\ device_name = <<112, 111, 116>>
    /\ nvs_device.display_name = <<<<102, 101, 114, 110>>>>
    /\ sensor_mode = "SENSOR_MODE_CONTROL_ONLY"

(***************************************************************************)
(* Properties of the measurement slot                                      *)
(***************************************************************************)
SamplerStores == sensor_pc # "collect" /\ sensor_pc' = "collect"
Delivered == IF sensor_pc = "collect" THEN sample_count ELSE sample_count - 1

\* C27: the slot never holds more than one reading; the sampler's queue
\* calls can always be taken, whatever the slot holds; when the sampler has
\* stored a sample the slot holds exactly that sample, also when the slot
\* was occupied; so a reading in the slot is the last one the sampler
\* stored, and it is what the publisher's receive returns.
C27_SlotHoldsLatestReading ==
    /\ [](Len(measurement_queue) <= 1)
    /\ [](sensor_pc = "send" => ENABLED (sensor_task_send /\ UNCHANGED MeasOthers))
    /\ [](sensor_pc = "overwrite" => ENABLED (sensor_task_overwrite /\ UNCHANGED MeasOthers))
    /\ [][SamplerStores => measurement_queue' = <<sample_count>>]_vars
    /\ [](measurement_queue # <<>> => measurement_queue[1] = Delivered)
    /\ [][published' # published
            => /\ published' = Append(published, Delivered)
               /\ measurement_queue' = <<>>]_vars
C27_Witness ==
    /\ published = <<1, 3>>
    /\ measurement_queue = <<5>>
    /\ sample_count = 5
    /\ sensor_pc = "collect"

(***************************************************************************)
(* Properties of app_main's start-up                                       *)
(***************************************************************************)
OnboardingReturned == onb_pc = "done" /\ onb_rc # "none"
OnboardingConnected == onb_rc = "ESP_OK" /\ out_state.wifi_connected

\* C29 as stated: the client and the tasks are started only when onboarding
\* has returned with wifi_connected = true.
C29_StartedOnlyWhenConnected ==
    tasks_started # {} => OnboardingReturned /\ OnboardingConnected

\* C29: the client and the five tasks are started, all six together, only
\* after onboarding has returned, and app_main goes on to start them after
\* every return, failed or not: after a failure without time sync, after a
\* success with a time-sync attempt behind it.
C29_StartedAfterEveryReturn ==
    /\ [](tasks_started # {}
            => /\ OnboardingReturned
               /\ tasks_started = {"mqtt_client", "sensor_task", "mqtt_task", "command_task",
                                    "ping_task", "schedule_task"}
               /\ (time_sync_state = "skipped") <=> ~OnboardingConnected
               /\ time_sync_state # "none")
    /\ []((OnboardingReturned /\ tasks_started = {})
            => ENABLED (app_main_after_onboarding
                          /\ UNCHANGED <<SchedVars, ApplyVars, TimerVars, OnbVars, HhmmVars,
                                         ParseVars, CmdVars, LoadVars, IdVars, MeasVars,
                                         ExtVars>>))
C29_Witness ==
    /\ OnboardingReturned
    /\ onb_rc # "ESP_OK" /\ ~out_state.wifi_connected
    /\ time_sync_state = "skipped"
    /\ "mqtt_client" \in tasks_started /\ "schedule_task" \in tasks_started


(***************************************************************************)
(* C31: a get of a key that is not stored                                  *)
(***************************************************************************)
KeyMissing == pg_nvs["complete"] = <<>>
GetReturned(type) == pg_call # <<>> /\ pg_call[1].type = type
GetResult == [err |-> pg_call[1].err, value |-> pg_call[1].value]
\* What the get of the call's type and default returns on another store or fault.
GetOn(nvs, fault) ==
    LET type == pg_call[1].type
        r == prefs_get(type, nvs, Untyped(type, pg_call[1].default), fault)
    IN [err |-> r.err, value |-> Typed(type, r.value)]
\* The stores in which the key holds a value a get of the type reads.
StoresHolding(type) == {PrefStore(FALSE, <<i>>) : i \in {j \in PrefStored : j.kind = KindOf(type)}}
TypedGets == PrefTypes \ {"blob"}

\* C31 as stated: for a typed get (u8, u32, i32, bool, float, string) of a key
\* that is not stored, what the caller gets (the return code and the value)
\* differs from what it gets for every stored value, and from what it gets on
\* an I/O failure.
C31_MissingKeyIsDistinguishable ==
    \A type \in TypedGets :
        (GetReturned(type) /\ KeyMissing /\ pg_call[1].fault = "none")
            => /\ \A s \in StoresHolding(type) :
                    GetOn(s, "none") # GetResult
               /\ GetOn(pg_nvs, "read") # GetResult

\* C31: a typed get of a key that is not stored in an existing namespace
\* returns ESP_OK with the caller's default: this differs from an I/O failure
\* (whose return code is not ESP_OK) but is what the get returns for a stored
\* value equal to the default.  With no namespace at all, the float get still
\* returns ESP_OK with the default, the other typed gets return
\* ESP_ERR_NVS_NOT_FOUND.  Only prefs_get_blob reports the missing key itself,
\* as ESP_ERR_NVS_NOT_FOUND.
C31_MissingKeyReadsAsDefault ==
    /\ \A type \in TypedGets :
        (GetReturned(type) /\ KeyMissing /\ pg_call[1].fault = "none")
            => IF pg_nvs["hub_url"] # <<>> \/ type = "float"
               THEN /\ pg_call[1].err = "ESP_OK"
                    /\ pg_call[1].value = pg_call[1].default
                    /\ GetOn(pg_nvs, "read").err # "ESP_OK"
                    /\ \E s \in StoresHolding(type) :
                         GetOn(s, "none") = GetResult
               ELSE pg_call[1].err = "ESP_ERR_NVS_NOT_FOUND"
    /\ (GetReturned("blob") /\ KeyMissing /\ pg_call[1].fault = "none")
            => pg_call[1].err = "ESP_ERR_NVS_NOT_FOUND"
C31_Witness ==
    /\ GetReturned("u32") /\ KeyMissing /\ pg_nvs["hub_url"] # <<>>
    /\ pg_call[1].fault = "none" /\ pg_call[1].default.num = 7
    /\ pg_call[1].err = "ESP_OK" /\ pg_call[1].value.num = 7


(***************************************************************************)
(* C32: schedule_lock under the two tasks                                  *)
(***************************************************************************)
UnderLock(who) ==
    IF who = "dispatch" THEN disp.pc \in {"set_locked", "apply_snapshot", "get_copy"}
    ELSE rtask.pc = "snapshot"
\* The dispatch task enters node_schedule_set / node_schedule_get, the
\* reconciliation task starts an iteration, in this step.
DispatchCalls == disp.pc = "idle" /\ disp'.calls = disp.calls + 1
IterationStarts == rtask.pc = "take" /\ rtask'.ticks = rtask.ticks + 1
EngineState == <<schedule_state, nvs_schedule, last_applied_minute, actuator_state>>

\* C32: the lock is held exactly while its holder is in a section that ends
\* with the give, so a held lock is always released and a task inside a call
\* or an iteration always leaves it; a take made while the other task holds
\* the lock ends the call at once: node_schedule_get hands out the defaults,
\* node_schedule_set returns ESP_ERR_TIMEOUT, the iteration is skipped, each
\* without changing the live schedule, the store, last_applied_minute or an
\* actuator, and without touching the lock.
C32_BoundedWaitNoDeadlock ==
    /\ [](\A who \in {"dispatch", "task"} : (schedule_lock = who) <=> UnderLock(who))
    /\ [](schedule_lock \in {"free", "dispatch", "task"})
    /\ (schedule_lock # "free") ~> (schedule_lock = "free")
    /\ (disp.pc # "idle") ~> (disp.pc = "idle")
    /\ (rtask.pc # "take") ~> (rtask.pc = "take")
    /\ [][(DispatchCalls /\ schedule_lock = "task")
            => /\ disp'.pc = "idle"
               /\ rc_hist'.ret.n = disp'.calls
               /\ rc_hist'.ret.rc = "ESP_ERR_TIMEOUT"
               /\ (rc_hist'.ret.op = "get" => rc_hist'.ret.out = node_schedule_defaults)
               /\ UNCHANGED <<EngineState, schedule_lock>>]_vars
    /\ [][(IterationStarts /\ schedule_lock = "dispatch")
            => /\ rtask'.pc = "take"
               /\ rc_hist'.tick.n = rtask'.ticks /\ rc_hist'.tick.how = "skipped"
               /\ UNCHANGED <<EngineState, schedule_lock>>]_vars
C32_Witness ==
    /\ schedule_lock = "task"
    /\ rc_hist.ret.op = "set" /\ rc_hist.ret.rc = "ESP_ERR_TIMEOUT" /\ rc_hist.ret.n = disp.calls
    /\ schedule_state = BaseSchedule /\ nvs_schedule = SavedBase


(***************************************************************************)
(* C33: the snapshot of an iteration and a Set that returns in between     *)
(***************************************************************************)
\* C33: an iteration of node_schedule_task that writes an actuator never
\* computes the write from a snapshot taken before the mutation of a
\* node_schedule_set that has already returned ESP_OK.
C33_TaskWritesFromTheSetSchedule ==
    (rc_hist.tick.how = "applied" /\ rc_hist.tick.wrote # {}) => ~rc_hist.tick.stale


(***************************************************************************)
(* C34: node_schedule_set that returns an error                            *)
(***************************************************************************)
\* C34: a node_schedule_set that returns an error leaves what
\* node_schedule_get hands out as it was before the call.
C34_FailedSetKeepsLiveSchedule ==
    [][(last_call'.op = "set" /\ last_call'.rc # "ESP_OK")
         => node_schedule_get(schedule_initialized', schedule_state')
              = node_schedule_get(schedule_initialized, schedule_state)]_vars

(***************************************************************************)
(* Properties of the published status                                      *)
(***************************************************************************)
\* C40: the step that handles a pump override publishes "pump_on" only if the
\* pump is on after sensors_set_pump_state returned; a turn-on blocked by the
\* cutoff float publishes no "pump_on".
C40_PumpOnStatusOnlyWhenPumpOn ==
    [][(PumpOnHandled /\ cmd_status' = <<<<"pump", "on">>>>)
        => actuator_state'["pump"]]_vars

(***************************************************************************)
(* Properties of the sampling cycle                                        *)
(***************************************************************************)
\* A step in which sensor_task's sensors_collect ran to its return.
SensorsCollectReturns ==
    /\ last_call'.op = "collect"
    /\ cmd_arrived' = cmd_arrived /\ cmd_handled' = cmd_handled /\ cmd_task' = cmd_task

\* C37: in sensor mode Full and in sensor mode ControlOnly, when sensors_collect
\* returns the pump is not on while the cutoff float reads low.
C37_CollectLeavesPumpOffWhenFloatLow ==
    [][SensorsCollectReturns => ~(actuator_state'["pump"] /\ collected'[1].cutoff_low)]_vars

(***************************************************************************)
(* Properties of overrides next to the schedule task                       *)
(***************************************************************************)
\* An iteration of node_schedule_task that found the minute of day changed.
Reconciles == last_call'.op = "task" /\ last_applied_minute' # last_applied_minute

\* C36: with a valid clock, the iteration of node_schedule_task that finds the
\* minute of day changed writes OFF to every actuator that is on and whose
\* window is disabled, so a switch-on without duration does not outlast it.
C36_ReconcileEndsOverrideOfDisabledWindow ==
    [][Reconciles
        => /\ time_valid
           /\ \A t \in TimerNames :
                ~schedule_state[t].enabled
                    => /\ ~actuator_state'[t]
                       /\ actuator_state[t] => t \in last_call'.wrote]_vars
\* The last command handled switched the light on without duration; no other
\* command followed, and the schedule task has switched the light off.
C36_Witness ==
    /\ cmd_status = <<<<"light", "on">>>>
    /\ ~Delaying /\ command_queue = <<>>
    /\ ~schedule_state["light"].enabled
    /\ last_call.op = "task" /\ "light" \in last_call.wrote
    /\ ~actuator_state["light"]

(***************************************************************************)
(* Properties of the offset of a configured schedule                       *)
(***************************************************************************)
\* The step that handles a configuration message whose schedule was parsed,
\* with node_schedule_set returning ESP_OK.
ScheduleSetHandled ==
    /\ ~Delaying /\ command_queue # <<>>
    /\ command_queue[1].cmd.type = "MQTT_CMD_CONFIG_UPDATE"
    /\ command_queue[1].cmd.has_schedule
    /\ cmd_handled' = Append(cmd_handled, command_queue[1].n)
    /\ last_call' = Call("set", "ESP_OK")

\* The tzOffsetMinutes item of message n, at the root or in its schedule object.
MessageOffset(n) ==
    LET root == cmd_messages[n][2].parsed[1]
        at_root == cJSON_GetObjectItemCaseSensitive(root, "tzOffsetMinutes")
    IN  IF at_root # JAbsent THEN at_root
        ELSE cJSON_GetObjectItemCaseSensitive(cJSON_GetObjectItemCaseSensitive(root, "schedule"),
                                              "tzOffsetMinutes")
StoredOffset(nvs) == nvs["tz_ofs"]

\* C35: a configuration message whose schedule parses and which carries no
\* tzOffsetMinutes, or 900, leaves the live and the stored offset at 0 whatever
\* they were before; one that carries -300 leaves them at -300.
C35_MissingOffsetResetsToZero ==
    [][ScheduleSetHandled
        => LET tz == MessageOffset(command_queue[1].n)
               new == IF tz = JInt(-300) THEN -300 ELSE 0
           IN  /\ tz \in {JAbsent, JInt(900), JInt(-300)}
               /\ schedule_state'.timezone_offset_minutes = new
               /\ StoredOffset(nvs_schedule') = <<new>>]_vars
\* The first message carried a complete schedule and no offset; the offset,
\* 60 before, is 0 in the live schedule and in the store.
C35_Witness ==
    /\ cmd_handled = <<1>>
    /\ MessageOffset(1) = JAbsent
    /\ cmd_status = <<<<"schedule", "updated">>>>
    /\ OvrSchedule.timezone_offset_minutes = 60
    /\ schedule_state.timezone_offset_minutes = 0
    /\ StoredOffset(nvs_schedule) = <<0>>

(***************************************************************************)
(* Properties of the telemetry ring buffer                                 *)
(***************************************************************************)
RingShape(h) ==
    /\ h.count >= 0 /\ h.count <= h.capacity
    /\ h.head >= 0 /\ h.head < h.capacity
    /\ h.tail >= 0 /\ h.tail < h.capacity
    /\ h.head = (h.tail + h.count) % h.capacity
AppendReturnsOk == rs_call'.op = "append" /\ rs_call'.rc = "ESP_OK"
DropOnEmpty == rs_call'.op = "drop" /\ s_ready /\ s_header.count = 0

\* C39: on an initialized store, after every append and drop, 0 <= count <=
\* capacity, head < capacity, tail < capacity and head = (tail + count) mod
\* capacity; a successful append on a full buffer writes the slot of the
\* oldest entry, advances the tail and leaves count at capacity; a drop on an
\* empty buffer returns an error and leaves head, tail and count as they were.
C39_RingBufferKeepsItsShape ==
    /\ [](s_ready => RingShape(s_header))
    /\ [][(AppendReturnsOk /\ s_header.count = s_header.capacity)
            => /\ s_header.head = s_header.tail
               /\ file_entries' = [file_entries EXCEPT ![s_header.tail] = rs_call'.sample]
               /\ s_header'.tail = (s_header.tail + 1) % s_header.capacity
               /\ s_header'.count = s_header.capacity]_vars
    /\ [][(AppendReturnsOk /\ s_header.count < s_header.capacity)
            => /\ s_header'.tail = s_header.tail
               /\ s_header'.count = s_header.count + 1]_vars
    /\ [][DropOnEmpty
            => /\ rs_call'.rc = "ESP_ERR_INVALID_SIZE"
               /\ s_header' = s_header /\ file_header' = file_header]_vars
\* An append on a full buffer whose oldest entry was in the last slot: the
\* tail has wrapped to 0 and the slot holds the new sample.
C39_Witness ==
    /\ s_ready
    /\ rs_call.op = "append" /\ rs_call.rc = "ESP_OK"
    /\ rs_call.before.count = RingCapacity /\ rs_call.before.tail = RingCapacity - 1
    /\ s_header = Header(RingCapacity, 0, 0, RingCapacity)
    /\ file_entries[RingCapacity - 1] = rs_call.sample

====
